---- MODULE Spec2Model ----
(***************************************************************************)
(* Writer Studio: the persistence store (writer_studio/persistence/db.py), *)
(* the round-robin evaluation team (writer_studio/teams/novel_eval_team.py)*)
(* and the /evaluate request pipeline (writer_studio/api/server.py).       *)
(*                                                                         *)
(* Python values are tagged tuples: <<"none">>, <<"str", s>>, <<"int", n>>,*)
(* <<"list", <<v1, ...>>>>, <<"dict", << <<k1, v1>>, ... >>>>.  A text is a  *)
(* sequence of tokens (TLA+ strings).                                      *)
(***************************************************************************)
EXTENDS Integers, Sequences, FiniteSets, TLC

VARIABLES
  profiles,      \* rows of table character_profiles
  profileSeq,    \* AUTOINCREMENT high-water mark of character_profiles
  templates,     \* rows of table character_templates
  templateSeq,   \* AUTOINCREMENT high-water mark of character_templates
  evaluations,   \* rows of table evaluations
  evalSeq,       \* AUTOINCREMENT high-water mark of evaluations
  embeddings,    \* rows of table eval_embeddings
  vecTable,      \* whether table eval_embeddings exists
  distanceFn,    \* whether SQL function distance() exists
  saved,         \* the save_evaluation calls so far: the id returned, the arguments
  env,           \* the process environment: which credentials are set
  DB_PATH,       \* the module global DB_PATH: a directory and a file name
  dirs,          \* the file system: the state of each directory
  runState,      \* the team run: "Idle", "Running", "Terminated" or "Failed"
  maxMessages,   \* MaxMessageTermination: the cap of the run
  messageCount,  \* MaxMessageTermination: the messages counted so far
  nextSpeaker,   \* RoundRobinGroupChat: index of the agent that speaks next
  transcript,    \* the messages of the run, each a source and a content
  team,          \* the last team construction: the clients built, or the error
  request,       \* the /evaluate request in flight
  response,      \* the answer to the last /evaluate request
  connections,   \* the save_character_profile call each pool thread is in
  now,           \* CURRENT_TIMESTAMP
  ret            \* the last call and what it returned

profVars == <<profiles, profileSeq, templates, templateSeq>>
evalVars == <<evaluations, evalSeq, embeddings, vecTable, distanceFn, saved>>
pathVars == <<DB_PATH, dirs>>
teamVars ==
  <<env, runState, maxMessages, messageCount, nextSpeaker, transcript, team>>
runVars == <<teamVars, pathVars>>
apiVars == <<request, response, connections>>

----------------------------------------------------------------------------
(* Bounds of the model *)

MaxProfiles == 2    \* rowids character_profiles may hand out
MaxTemplates == 2   \* rowids character_templates may hand out
MaxEvals == 2       \* rowids evaluations may hand out
MaxClock == 1       \* last value of CURRENT_TIMESTAMP
MaxTopK == 2        \* largest top_k a search asks for
MaxRounds == 6      \* largest max_rounds a caller passes
MaxThreads == 2     \* pool threads that run save_character_profile at once
MaxLimit == 2       \* largest limit a profile or template search asks for
EmbedDim == 2       \* components of an embedding (EMBED_DIM)

----------------------------------------------------------------------------
(* Python values and json.dumps / json.loads *)

PyNone == <<"none">>
PyStr(s) == <<"str", s>>
PyInt(n) == <<"int", n>>
PyList(xs) == <<"list", xs>>
PyDict(es) == <<"dict", es>>
\* the dict a getter builds from a table row
PyRow(r) == <<"row", r>>

IsNone(v) == v[1] = "none"

RECURSIVE Dumps(_)
RECURSIVE DumpsItems(_)
RECURSIVE DumpsEntries(_)
\* json.dumps(v): the JSON text of a Python value
Dumps(v) ==
  CASE v[1] = "none" -> <<"null">>
    [] v[1] = "str"  -> <<"\"", v[2], "\"">>
    [] v[1] = "int"  -> <<ToString(v[2])>>
    [] v[1] = "list" -> <<"[">> \o DumpsItems(v[2]) \o <<"]">>
    [] v[1] = "dict" -> <<"{">> \o DumpsEntries(v[2]) \o <<"}">>
DumpsItems(xs) ==
  IF xs = <<>> THEN <<>>
  ELSE IF Len(xs) = 1 THEN Dumps(xs[1])
  ELSE Dumps(xs[1]) \o <<",">> \o DumpsItems(Tail(xs))
DumpsEntries(es) ==
  IF es = <<>> THEN <<>>
  ELSE IF Len(es) = 1 THEN <<"\"", es[1][1], "\"", ":">> \o Dumps(es[1][2])
  ELSE <<"\"", es[1][1], "\"", ":">> \o Dumps(es[1][2]) \o <<",">>
       \o DumpsEntries(Tail(es))

\* dict(d) with d[k] = v: an existing key keeps its place, a new one is appended
RECURSIVE DictSetEntries(_, _, _)
DictSetEntries(es, k, v) ==
  IF es = <<>> THEN << <<k, v>> >>
  ELSE IF es[1][1] = k THEN << <<k, v>> >> \o Tail(es)
  ELSE <<es[1]>> \o DictSetEntries(Tail(es), k, v)
DictSet(d, k, v) == PyDict(DictSetEntries(d[2], k, v))

RECURSIVE DictHasEntries(_, _)
DictHasEntries(es, k) ==
  IF es = <<>> THEN FALSE
  ELSE es[1][1] = k \/ DictHasEntries(Tail(es), k)
\* k in d
DictHas(d, k) == d[1] = "dict" /\ DictHasEntries(d[2], k)

RECURSIVE DictGetEntries(_, _)
DictGetEntries(es, k) ==
  IF es = <<>> THEN PyNone
  ELSE IF es[1][1] = k THEN es[1][2]
  ELSE DictGetEntries(Tail(es), k)
\* d.get(k)
DictGet(d, k) == IF d[1] = "dict" THEN DictGetEntries(d[2], k) ELSE PyNone

\* the numerals a JSON text of the model may hold
Numerals == 0..9

ParseFail == [ok |-> FALSE, val |-> PyNone, next |-> 0]
ParseOk(v, n) == [ok |-> TRUE, val |-> v, next |-> n]

RECURSIVE ParseValue(_, _)
RECURSIVE ParseItems(_, _, _)
RECURSIVE ParseEntries(_, _, _)
\* the JSON value that starts at token i of text t
ParseValue(t, i) ==
  IF i > Len(t) THEN ParseFail
  ELSE IF t[i] = "null" THEN ParseOk(PyNone, i + 1)
  ELSE IF t[i] = "\"" THEN
    IF i + 2 <= Len(t) /\ t[i + 2] = "\"" THEN ParseOk(PyStr(t[i + 1]), i + 3)
    ELSE ParseFail
  ELSE IF t[i] = "[" THEN
    IF i + 1 <= Len(t) /\ t[i + 1] = "]" THEN ParseOk(PyList(<<>>), i + 2)
    ELSE ParseItems(t, i + 1, <<>>)
  ELSE IF t[i] = "{" THEN
    IF i + 1 <= Len(t) /\ t[i + 1] = "}" THEN ParseOk(PyDict(<<>>), i + 2)
    ELSE ParseEntries(t, i + 1, <<>>)
  ELSE IF \E n \in Numerals : ToString(n) = t[i] THEN
    ParseOk(PyInt(CHOOSE n \in Numerals : ToString(n) = t[i]), i + 1)
  ELSE ParseFail
ParseItems(t, i, acc) ==
  LET r == ParseValue(t, i) IN
  IF ~r.ok \/ r.next > Len(t) THEN ParseFail
  ELSE IF t[r.next] = "," THEN ParseItems(t, r.next + 1, Append(acc, r.val))
  ELSE IF t[r.next] = "]" THEN ParseOk(PyList(Append(acc, r.val)), r.next + 1)
  ELSE ParseFail
ParseEntries(t, i, acc) ==
  IF i + 3 > Len(t) \/ t[i] # "\"" \/ t[i + 2] # "\"" \/ t[i + 3] # ":"
  THEN ParseFail
  ELSE LET r == ParseValue(t, i + 4) IN
    IF ~r.ok \/ r.next > Len(t) THEN ParseFail
    ELSE IF t[r.next] = ","
      THEN ParseEntries(t, r.next + 1, DictSetEntries(acc, t[i + 1], r.val))
    ELSE IF t[r.next] = "}"
      THEN ParseOk(PyDict(DictSetEntries(acc, t[i + 1], r.val)), r.next + 1)
    ELSE ParseFail

JsonError == <<"JSONDecodeError">>

\* json.loads(text): the decoded value, or a decode error
Loads(text) ==
  LET r == ParseValue(text, 1) IN
  IF r.ok /\ r.next = Len(text) + 1 THEN r.val ELSE JsonError

\* The documents callers store as a profile or a template
EmptyDoc == PyDict(<<>>)
MageDoc == PyDict(<< <<"role", PyStr("Mage")>> >>)
HeroDoc == PyDict(<< <<"backstory", PyStr("orphan")>>,
                     <<"relationships", PyList(<<PyStr("Mentor")>>)>> >>)
Docs == {EmptyDoc, MageDoc, HeroDoc}

\* Python truthiness of a text column: NULL and "" are falsy
Truthy(col) == ~IsNone(col) /\ col[2] # <<>>

----------------------------------------------------------------------------
(* Tables character_profiles and character_templates *)

Langs == {"en", "zh"}
Names == {"Ann", "Bob"}
Sources == {PyNone, PyStr("history")}
\* os.getenv("CHAR_LANG", "zh-CN")
DefaultCharLang == "zh-CN"

\* an optional argument: None, or one of the values
Opt(S) == {PyNone} \cup {PyStr(x) : x \in S}

\* the rows a (lang, name) pair or an id selects
RowsByKey(table, lang, name) == {r \in table : r.lang = lang /\ r.name = name}
RowsById(table, id) == {r \in table : r.id = id}

\* AUTOINCREMENT: the next rowid is one past the largest ever handed out
NextRowId(seq) == seq + 1

NoRequest == [phase |-> "none"]
NoResponse == [status |-> 0]

NoCall == [op |-> "none", lang |-> "", name |-> "", doc |-> PyNone,
           arg |-> <<>>, id |-> 0, result |-> PyNone, ok |-> FALSE,
           raised |-> "", conflict |-> FALSE]

----------------------------------------------------------------------------
(* The database location: DB_PATH and _ensure_dir *)

\* os.path.dirname of NOVEL_EVAL_DB_PATH, and os.path.abspath("./data")
ConfiguredDir == "/data"
FallbackDir == "./data"
\* a directory holds the database file with its tables, exists and takes new
\* files, exists and takes none, does not exist and can be created, or does
\* not exist and cannot be created
DirStates == {"database", "writable", "readonly", "creatable", "blocked"}
Exists(state) == state \in {"database", "writable", "readonly"}

DbPath(dir, file) == [dir |-> dir, file |-> file]
\* os.getenv("NOVEL_EVAL_DB_PATH", "/data/evals.db")
DefaultPath == DbPath(ConfiguredDir, "evals.db")

\* os.makedirs(d, exist_ok=True) raises OSError
MakedirsRaises(ds, d) == ds[d] = "blocked"
\* the file system after os.makedirs(d, exist_ok=True) returned
AfterMakedirs(ds, d) ==
  IF ds[d] = "creatable" THEN [ds EXCEPT ![d] = "writable"] ELSE ds

\* base and not os.path.exists(base), and os.makedirs(base) raises OSError
EnsureFallsBack ==
  /\ DB_PATH.dir # ""
  /\ ~Exists(dirs[DB_PATH.dir])
  /\ MakedirsRaises(dirs, DB_PATH.dir)
\* os.makedirs(fallback_dir, exist_ok=True) raises too: _ensure_dir raises
EnsureRaises == EnsureFallsBack /\ MakedirsRaises(dirs, FallbackDir)

\* DB_PATH after _ensure_dir returned or raised
PathAfterEnsure ==
  IF EnsureFallsBack /\ ~EnsureRaises
  THEN DbPath(FallbackDir, IF DB_PATH.file = "" THEN "evals.db" ELSE DB_PATH.file)
  ELSE DB_PATH
\* the file system after _ensure_dir returned or raised
DirsAfterEnsure ==
  IF DB_PATH.dir = "" \/ Exists(dirs[DB_PATH.dir]) THEN dirs
  ELSE IF ~EnsureFallsBack THEN AfterMakedirs(dirs, DB_PATH.dir)
  ELSE AfterMakedirs(dirs, FallbackDir)

\* sqlite3.connect(path) opens or creates the database file
CanConnect(path, ds) ==
  /\ path.file # ""
  /\ ds[path.dir] \in {"database", "writable"}
\* sqlite3.connect(path) and the statements on the tables work
CanOpen(path, ds) ==
  /\ path.file # ""
  /\ ds[path.dir] = "database"

\* _ensure_dir() returns and the statements on the tables work
Opens == ~EnsureRaises /\ CanOpen(PathAfterEnsure, DirsAfterEnsure)
\* _ensure_dir() returns and init_db can create the tables
OpensForInit == ~EnsureRaises /\ CanConnect(PathAfterEnsure, DirsAfterEnsure)

\* _ensure_dir()
_ensure_dir ==
  /\ DB_PATH' = PathAfterEnsure
  /\ dirs' = DirsAfterEnsure

\* a plain INSERT into a table without UNIQUE(lang, name)
UpsertProfileAlwaysInserts(table, seq, lang, name, text) ==
  table \cup {[id |-> NextRowId(seq), created_at |-> now, updated_at |-> now,
              lang |-> lang, name |-> name, profile_json |-> text]}

\* INSERT ... ON CONFLICT(lang, name) DO NOTHING
UpsertProfileKeepsOld(table, seq, lang, name, text) ==
  IF RowsByKey(table, lang, name) = {}
  THEN table \cup {[id |-> NextRowId(seq), created_at |-> now, updated_at |-> now,
                    lang |-> lang, name |-> name, profile_json |-> text]}
  ELSE table

\* INSERT INTO character_profiles ... ON CONFLICT(lang, name) DO UPDATE SET
\* profile_json = excluded.profile_json, updated_at = CURRENT_TIMESTAMP
UpsertProfile(table, seq, lang, name, text) ==
  IF RowsByKey(table, lang, name) = {}
  THEN table \cup {[id |-> NextRowId(seq), created_at |-> now, updated_at |-> now,
                    lang |-> lang, name |-> name, profile_json |-> text]}
  ELSE {IF r.lang = lang /\ r.name = name
        THEN [r EXCEPT !.profile_json = text, !.updated_at = now]
        ELSE r : r \in table}

\* INSERT INTO character_templates ... ON CONFLICT(lang, name) DO UPDATE SET
\* source, template_json, updated_at
UpsertTemplate(table, seq, lang, name, source, text) ==
  IF RowsByKey(table, lang, name) = {}
  THEN table \cup {[id |-> NextRowId(seq), created_at |-> now, updated_at |-> now,
                    lang |-> lang, name |-> name, source |-> source,
                    template_json |-> text]}
  ELSE {IF r.lang = lang /\ r.name = name
        THEN [r EXCEPT !.source = source, !.template_json = text,
                       !.updated_at = now]
        ELSE r : r \in table}

\* SELECT id FROM <table> WHERE lang = ? AND name = ?; int(row[0]) if row else -1
SelectId(table, lang, name) ==
  IF RowsByKey(table, lang, name) = {} THEN -1
  ELSE (CHOOSE r \in RowsByKey(table, lang, name) : TRUE).id

\* the sequence after an upsert: an insert consumes a rowid, and the rowid drawn
\* by a conflicting INSERT may or may not be consumed (SQLite allows gaps)
SeqAfterUpsert(table, seq, lang, name, bump) ==
  IF RowsByKey(table, lang, name) = {} \/ bump THEN NextRowId(seq) ELSE seq

\* json.loads(col) if col else None
LoadColumn(col) == IF Truthy(col) THEN Loads(col[2]) ELSE PyNone

\* get_character_profile(lang, name): the row as a dict, or None
get_character_profile(lang, name) ==
  IF RowsByKey(profiles, lang, name) = {} THEN PyNone
  ELSE LET r == CHOOSE x \in RowsByKey(profiles, lang, name) : TRUE
       IN PyRow([id |-> r.id, lang |-> r.lang, name |-> r.name,
                 created_at |-> r.created_at, updated_at |-> r.updated_at,
                 profile |-> LoadColumn(r.profile_json)])

\* get_character_profile_by_id(profile_id): the row as a dict, or None
get_character_profile_by_id(id) ==
  IF RowsById(profiles, id) = {} THEN PyNone
  ELSE LET r == CHOOSE x \in RowsById(profiles, id) : TRUE
       IN PyRow([id |-> r.id, lang |-> r.lang, name |-> r.name,
                 created_at |-> r.created_at, updated_at |-> r.updated_at,
                 profile |-> LoadColumn(r.profile_json)])

\* get_character_template_by_id(template_id): the row as a dict, or None
get_character_template_by_id(id) ==
  IF RowsById(templates, id) = {} THEN PyNone
  ELSE LET r == CHOOSE x \in RowsById(templates, id) : TRUE
       IN PyRow([id |-> r.id, lang |-> r.lang, name |-> r.name,
                 created_at |-> r.created_at, updated_at |-> r.updated_at,
                 source |-> r.source, template |-> LoadColumn(r.template_json)])

\* save_character_profile(lang, name, profile_json) -> row id
save_character_profile(lang, name, doc) ==
  /\ \E bump \in BOOLEAN :
       LET table == UpsertProfile(profiles, profileSeq, lang, name,
                                  PyStr(Dumps(doc)))
       IN /\ SeqAfterUpsert(profiles, profileSeq, lang, name, bump) <= MaxProfiles
          /\ profiles' = table
          /\ profileSeq' = SeqAfterUpsert(profiles, profileSeq, lang, name, bump)
          /\ ret' = [NoCall EXCEPT !.op = "save_character_profile",
                       !.lang = lang, !.name = name, !.doc = doc,
                       !.conflict = (RowsByKey(profiles, lang, name) # {}),
                       !.id = SelectId(profiles, lang, name),
                       !.result = PyInt(SelectId(table, lang, name)),
                       !.ok = TRUE]
  /\ Opens
  /\ _ensure_dir
  /\ UNCHANGED <<templates, templateSeq, now, evalVars, teamVars, apiVars>>

\* save_character_template(lang, name, template_json, source) -> row id
save_character_template(lang, name, doc, source) ==
  /\ \E bump \in BOOLEAN :
       LET table == UpsertTemplate(templates, templateSeq, lang, name, source,
                                   PyStr(Dumps(doc)))
       IN /\ SeqAfterUpsert(templates, templateSeq, lang, name, bump)
               <= MaxTemplates
          /\ templates' = table
          /\ templateSeq' = SeqAfterUpsert(templates, templateSeq, lang, name, bump)
          /\ ret' = [NoCall EXCEPT !.op = "save_character_template",
                       !.lang = lang, !.name = name, !.doc = doc,
                       !.conflict = (RowsByKey(templates, lang, name) # {}),
                       !.id = SelectId(templates, lang, name),
                       !.result = PyInt(SelectId(table, lang, name)),
                       !.ok = TRUE]
  /\ Opens
  /\ _ensure_dir
  /\ UNCHANGED <<profiles, profileSeq, now, evalVars, teamVars, apiVars>>

\* an UPDATE that always sets name and lang, to NULL when they are not given
UpdatedRowSetsAll(r, text, name, lang) ==
  [r EXCEPT !.profile_json = text, !.updated_at = now,
            !.name = IF IsNone(name) THEN "" ELSE name[2],
            !.lang = IF IsNone(lang) THEN "" ELSE lang[2]]

\* UPDATE character_profiles SET profile_json = ?, updated_at = CURRENT_TIMESTAMP
\* [, name = ?] [, lang = ?] WHERE id = ?
UpdatedRow(r, text, name, lang) ==
  [r EXCEPT !.profile_json = text, !.updated_at = now,
            !.name = IF IsNone(name) THEN r.name ELSE name[2],
            !.lang = IF IsNone(lang) THEN r.lang ELSE lang[2]]

\* UNIQUE(lang, name): the updated row would collide with another row
UpdateViolatesUnique(table, id, name, lang) ==
  \E r \in RowsById(table, id) : \E o \in table :
     /\ o.id # id
     /\ o.lang = UpdatedRow(r, r.profile_json, name, lang).lang
     /\ o.name = UpdatedRow(r, r.profile_json, name, lang).name

\* update_character_profile(profile_id, profile_json, name, lang) -> bool
update_character_profile(id, doc, name, lang) ==
  /\ IF UpdateViolatesUnique(profiles, id, name, lang)
     THEN \* sqlite3.IntegrityError leaves the function; nothing is committed
          /\ profiles' = profiles
          /\ ret' = [NoCall EXCEPT !.op = "update_character_profile",
                       !.id = id, !.doc = doc, !.arg = <<name, lang>>,
                       !.raised = "IntegrityError"]
     ELSE /\ profiles' = {IF r.id = id
                          THEN UpdatedRow(r, PyStr(Dumps(doc)), name, lang)
                          ELSE r : r \in profiles}
          /\ ret' = [NoCall EXCEPT !.op = "update_character_profile",
                       !.id = id, !.doc = doc, !.arg = <<name, lang>>,
                       \* cur.rowcount > 0
                       !.ok = (RowsById(profiles, id) # {})]
  /\ Opens
  /\ _ensure_dir
  /\ UNCHANGED <<profileSeq, templates, templateSeq, now, evalVars, teamVars,
                 apiVars>>

\* the relationships overrides a caller may send
RelOverrides ==
  {PyNone, PyStr("Friend"), PyList(<<PyStr("Ally1")>>),
   PyDict(<< <<"allies", PyList(<<PyStr("Ally1")>>)>> >>),
   PyDict(<< <<"allies", PyStr("Ally1")>> >>)}
BackstoryOverrides == {PyNone, PyStr("exile")}

\* a normalisation that takes the 'allies' entry of a dict whatever it is
NormalizeRelationshipsAnyAllies(rel) ==
  IF rel[1] = "dict" /\ DictHas(rel, "allies") THEN DictGet(rel, "allies")
  ELSE rel

\* the relationships value use_template stores for an override rel
NormalizeRelationships(rel) ==
  IF rel[1] = "dict" /\ DictHas(rel, "allies") /\ DictGet(rel, "allies")[1] = "list"
  THEN DictGet(rel, "allies")
  ELSE rel

\* a new_profile that leaves out the template's defaults
NewProfileFromNothing(defaults, backstory, rel, name) ==
  LET d1 == IF IsNone(backstory) THEN PyDict(<<>>)
            ELSE DictSet(PyDict(<<>>), "backstory", backstory)
      d2 == IF IsNone(rel) THEN d1
            ELSE DictSet(d1, "relationships", NormalizeRelationships(rel))
  IN DictSet(d2, "name", PyStr(name))

\* new_profile: the template's defaults with the overrides and the name applied
NewProfile(defaults, backstory, rel, name) ==
  LET d0 == IF defaults[1] = "dict" /\ defaults[2] # <<>> THEN defaults
            ELSE PyDict(<<>>)
      d1 == IF IsNone(backstory) THEN d0 ELSE DictSet(d0, "backstory", backstory)
      d2 == IF IsNone(rel) THEN d1
            ELSE DictSet(d1, "relationships", NormalizeRelationships(rel))
  IN DictSet(d2, "name", PyStr(name))

\* payload.language or template_lang or os.getenv("CHAR_LANG", "zh-CN")
UseLanguage(language, template_lang) ==
  IF ~IsNone(language) /\ language[2] # "" THEN language[2]
  ELSE IF template_lang # "" THEN template_lang
  ELSE DefaultCharLang

\* POST /templates/{template_id}/use
use_template(template_id, name, language, backstory, rel, persist) ==
  LET t == get_character_template_by_id(template_id) IN
  /\ CanOpen(DB_PATH, dirs)
  /\ IF IsNone(t)
     THEN /\ ret' = [NoCall EXCEPT !.op = "use_template", !.id = template_id,
                       !.raised = "404"]
          /\ UNCHANGED <<profiles, profileSeq, pathVars>>
     ELSE LET lang == UseLanguage(language, t[2].lang)
              doc == NewProfile(t[2].template, backstory, rel, name)
              table == UpsertProfile(profiles, profileSeq, lang, name,
                                     PyStr(Dumps(doc)))
          IN IF persist
             THEN /\ \E bump \in BOOLEAN :
                       /\ SeqAfterUpsert(profiles, profileSeq, lang, name, bump)
                            <= MaxProfiles
                       /\ profileSeq' = SeqAfterUpsert(profiles, profileSeq, lang,
                                                       name, bump)
                  /\ profiles' = table
                  /\ _ensure_dir
                  /\ ret' = [NoCall EXCEPT !.op = "use_template",
                               !.id = template_id, !.lang = lang, !.name = name,
                               !.doc = doc, !.arg = <<backstory, rel>>,
                               !.conflict = (RowsByKey(profiles, lang, name) # {}),
                               !.result = PyInt(SelectId(table, lang, name)),
                               !.ok = TRUE]
             ELSE /\ ret' = [NoCall EXCEPT !.op = "use_template",
                               !.id = template_id, !.lang = lang, !.name = name,
                               !.doc = doc, !.arg = <<backstory, rel>>,
                               !.ok = TRUE]
                  /\ UNCHANGED <<profiles, profileSeq, pathVars>>
  /\ UNCHANGED <<templates, templateSeq, now, evalVars, teamVars, apiVars>>

----------------------------------------------------------------------------
(* Table evaluations, table eval_embeddings and the pseudo-embedding *)

\* texts: a chapter, a query, a message content
NoText == <<>>
MysteryTale == <<"Mystery", "tale">>
OtherStory == <<"Other", "story">>

\* int.from_bytes(sha256(text)[:8], "big"), its low LcgBits bits
Sha256Seed(text) ==
  CASE text = MysteryTale -> 28348
    [] text = OtherStory -> 15763
    [] text = NoText -> 7188
    [] text = <<"Mystery">> -> 20666
    [] text = <<"tale">> -> 24224
    [] text = <<"story">> -> 12069
    [] text = <<"mystery">> -> 7307
    [] text = <<"%">> -> 15984
    [] OTHER -> 1

\* the generator keeps the low bits of its 64-bit state: 2^15
LcgModulus == 32768
\* 6364136223846793005, 2862933555777941757 and 3037000493 modulo LcgModulus
LcgSeedMul == 32557
LcgMul == 12541
LcgInc == 29485

RECURSIVE LcgVector(_, _)
\* dim successive states of the generator after rng
LcgVector(rng, dim) ==
  IF dim = 0 THEN <<>>
  ELSE LET nxt == (rng * LcgMul + LcgInc) % LcgModulus
       IN <<nxt>> \o LcgVector(nxt, dim - 1)

\* an embedding that also depends on how many evaluations were saved
PseudoEmbedSalted(text, dim) ==
  LcgVector((Sha256Seed(text) * LcgSeedMul + 1 + evalSeq) % LcgModulus, dim)

\* _pseudo_embed(text, dim)
PseudoEmbed(text, dim) ==
  LcgVector((Sha256Seed(text) * LcgSeedMul + 1) % LcgModulus, dim)

\* _pseudo_embed called on its own
_pseudo_embed(text, dim) ==
  /\ ret' = [op |-> "_pseudo_embed", text |-> text, dim |-> dim,
             result |-> PseudoEmbed(text, dim)]
  /\ UNCHANGED <<profVars, evalVars, now, runVars, apiVars>>

\* the squared distance of two vectors
RECURSIVE Distance(_, _)
Distance(a, b) ==
  IF a = <<>> \/ b = <<>> THEN 0
  ELSE (a[1] - b[1]) * (a[1] - b[1]) + Distance(Tail(a), Tail(b))

\* json.dumps(final_json) if final_json is not None else None
FinalJsonColumnIfTruthy(final_json) ==
  IF IsNone(final_json) \/ final_json = EmptyDoc THEN PyNone
  ELSE PyStr(Dumps(final_json))

FinalJsonColumn(final_json) ==
  IF IsNone(final_json) THEN PyNone ELSE PyStr(Dumps(final_json))

\* the evaluations row save_evaluation inserts
EvaluationRow(id, a) ==
  [id |-> id, created_at |-> now, provider |-> a.provider, model |-> a.model,
   lang |-> a.lang, rounds |-> a.rounds, input_tokens |-> a.input_tokens,
   output_tokens |-> a.output_tokens, total_tokens |-> a.total_tokens,
   chapter_text |-> a.chapter_text, final_text |-> a.final_text,
   final_json |-> FinalJsonColumn(a.final_json)]

\* INSERT INTO eval_embeddings(rowid, embedding): raises when the table is missing
EmbeddingInsertRaises == ~vecTable

\* what the transaction commits when the embedding insert raised
CommittedAfterEmbedErrorRollsBack(before, inserted) == before

CommittedAfterEmbedError(before, inserted) == inserted

\* an embedding row that takes the table's next free rowid
EmbeddingRowNextFree(eval_id, chapter_text) ==
  [rowid |-> Cardinality(embeddings) + 1,
   embedding |-> PseudoEmbed(chapter_text, EmbedDim)]

\* INSERT INTO eval_embeddings(rowid, embedding) VALUES (eval_id, blob)
EmbeddingRow(eval_id, chapter_text) ==
  [rowid |-> eval_id, embedding |-> PseudoEmbed(chapter_text, EmbedDim)]

\* save_evaluation(provider, ..., final_json) -> eval_id
save_evaluation(a) ==
  /\ evalSeq < MaxEvals
  /\ LET id == NextRowId(evalSeq)
         inserted == evaluations \cup {EvaluationRow(id, a)}
         table == IF EmbeddingInsertRaises
                  THEN CommittedAfterEmbedError(evaluations, inserted)
                  ELSE inserted
     IN /\ evaluations' = table
        /\ evalSeq' = id
        /\ embeddings' =
             IF EmbeddingInsertRaises THEN embeddings
             ELSE embeddings \cup {EmbeddingRow(id, a.chapter_text)}
        /\ saved' = Append(saved, [id |-> id, args |-> a])
        /\ ret' = [op |-> "save_evaluation", result |-> PyInt(id),
                  raised |-> IF table = inserted THEN "" ELSE "OperationalError"]
  /\ Opens
  /\ _ensure_dir
  /\ UNCHANGED <<vecTable, distanceFn>>

\* save_evaluation called on its own, as the command line does
SaveCall(a) ==
  /\ save_evaluation(a)
  /\ UNCHANGED <<profVars, now, teamVars, apiVars>>

\* get_evaluation(eval_id): the row as a dict, or None
get_evaluation(id) ==
  IF RowsById(evaluations, id) = {} THEN PyNone
  ELSE LET r == CHOOSE x \in RowsById(evaluations, id) : TRUE
       IN PyRow([id |-> r.id, created_at |-> r.created_at,
                 provider |-> r.provider, model |-> r.model, lang |-> r.lang,
                 rounds |-> r.rounds, input_tokens |-> r.input_tokens,
                 output_tokens |-> r.output_tokens,
                 total_tokens |-> r.total_tokens,
                 chapter_text |-> r.chapter_text, final_text |-> r.final_text,
                 final_json |-> LoadColumn(r.final_json)])

\* the orderings of the rows of S by ascending key; rows with equal keys come
\* in any order (ORDER BY leaves ties open)
OrderedBy(S, Key(_)) ==
  {s \in [1..Cardinality(S) -> S] :
     /\ \A i \in DOMAIN s : \A j \in DOMAIN s : i # j => s[i] # s[j]
     /\ \A i \in DOMAIN s : \A j \in DOMAIN s : i < j => Key(s[i]) <= Key(s[j])}

\* a query without LIMIT
LimitNothing(s, k) == s

\* LIMIT k: the first k rows (every row when k is negative)
Limit(s, k) ==
  IF k < 0 \/ k >= Len(s) THEN s ELSE SubSeq(s, 1, k)

\* LIKE compares ASCII letters without case
Fold(tok) ==
  CASE tok = "Mystery" -> "mystery"
    [] tok = "Other" -> "other"
    [] tok = "Ann" -> "ann"
    [] tok = "Bob" -> "bob"
    [] tok = "Mage" -> "mage"
    [] OTHER -> tok

\* text LIKE '%' || query || '%': the query occurs in the text; a % in the
\* query matches any run of the text
RECURSIVE LikeFrom(_, _)
LikeFrom(text, pat) ==
  IF pat = <<>> THEN TRUE
  ELSE IF pat[1] = "%" THEN
    \E k \in 0..Len(text) : LikeFrom(SubSeq(text, k + 1, Len(text)), Tail(pat))
  ELSE /\ text # <<>>
       /\ Fold(text[1]) = Fold(pat[1])
       /\ LikeFrom(Tail(text), Tail(pat))
Like(text, query) == LikeFrom(text, <<"%">> \o query \o <<"%">>)

\* a summary without the decoded final_json
VectorSummaryNoJson(erow) ==
  [id |-> erow.id, created_at |-> erow.created_at, provider |-> erow.provider,
   model |-> erow.model, lang |-> erow.lang, rounds |-> erow.rounds,
   final_text |-> erow.final_text]

\* the summary the vector path builds from an evaluations row
VectorSummary(erow) ==
  [id |-> erow.id, created_at |-> erow.created_at, provider |-> erow.provider,
   model |-> erow.model, lang |-> erow.lang, rounds |-> erow.rounds,
   final_text |-> erow.final_text, final_json |-> LoadColumn(erow.final_json)]

\* the summary the LIKE fallback builds from an evaluations row
FallbackSummary(r) ==
  [id |-> r.id, created_at |-> r.created_at, provider |-> r.provider,
   model |-> r.model, lang |-> r.lang, rounds |-> r.rounds,
   final_text |-> r.final_text, final_json |-> LoadColumn(r.final_json)]

\* whether the vector query of search_evaluations runs without raising
VectorQueryRuns == vecTable /\ distanceFn

\* SELECT rowid, distance(embedding, ?) AS dist FROM eval_embeddings
\* ORDER BY dist LIMIT ?: the rowids, for each admissible order
VectorIds(query, top_k) ==
  {LET ranked == Limit(s, top_k)
   IN [i \in 1..Len(ranked) |-> ranked[i].rowid] :
     s \in OrderedBy(embeddings,
            LAMBDA e : Distance(e.embedding, PseudoEmbed(query, EmbedDim)))}

\* the evaluations rows with one of the ids, in the order of the table
VectorResultsByRowid(ids) ==
  LET rows == {r \in evaluations : \E i \in DOMAIN ids : r.id = ids[i]}
      s == CHOOSE o \in OrderedBy(rows, LAMBDA r : r.id) : TRUE
  IN [i \in 1..Len(s) |-> VectorSummary(s[i])]

\* the vector path's results for ids: the evaluations rows with one of the ids,
\* sorted by the position of their id in ids
RECURSIVE VectorResults(_)
VectorResults(ids) ==
  IF ids = <<>> THEN <<>>
  ELSE (IF RowsById(evaluations, ids[1]) = {} THEN <<>>
        ELSE <<VectorSummary(CHOOSE r \in RowsById(evaluations, ids[1]) : TRUE)>>)
       \o VectorResults(Tail(ids))

\* SELECT ... FROM evaluations WHERE chapter_text LIKE ?
\* ORDER BY created_at DESC LIMIT ?: the summaries, for each admissible order
FallbackResults(query, top_k) ==
  {LET rows == Limit(s, top_k)
   IN [i \in 1..Len(rows) |-> FallbackSummary(rows[i])] :
     s \in OrderedBy({r \in evaluations : Like(r.chapter_text, query)},
            LAMBDA r : 0 - r.created_at)}

\* a vector path that serves whatever the vector query returned
VectorServesAlways(ids) == TRUE

\* if ids: the vector path serves the request when the query returned rows
VectorServes(ids) == ids # <<>>

\* search_evaluations(query_text, top_k) -> list of summaries
search_evaluations(query, top_k) ==
  /\ CanOpen(DB_PATH, dirs)
  /\ \/ /\ VectorQueryRuns
        /\ \E ids \in VectorIds(query, top_k) :
             /\ VectorServes(ids)
             /\ ret' = [op |-> "search_evaluations", query |-> query,
                       top_k |-> top_k, path |-> "vector",
                       result |-> VectorResults(ids)]
     \/ /\ \/ ~VectorQueryRuns
           \/ \E ids \in VectorIds(query, top_k) : ~VectorServes(ids)
        /\ \E rows \in FallbackResults(query, top_k) :
             ret' = [op |-> "search_evaluations", query |-> query,
                     top_k |-> top_k, path |-> "like", result |-> rows]
  /\ UNCHANGED <<profVars, evalVars, now, runVars, apiVars>>

----------------------------------------------------------------------------
(* search_character_profiles and search_character_templates *)

\* the filters of a search: each None or a value
Filters(lang, name_like, q, field, value_like) ==
  [lang |-> lang, name_like |-> name_like, q |-> q, field |-> field,
   value_like |-> value_like]
NoFilters == Filters(PyNone, PyNone, PyNone, PyNone, PyNone)

\* if lang:, if field: a string that is neither None nor empty
Supplied(arg) == ~IsNone(arg) /\ arg[2] # ""

\* json_extract(doc, '$.field') as LIKE reads it: the text of a string or a
\* number, the JSON text of a list or an object, NULL for null or no such key
JsonExtract(text, field) ==
  LET doc == Loads(text) IN
  IF doc[1] # "dict" \/ ~DictHas(doc, field) THEN PyNone
  ELSE LET v == DictGet(doc, field) IN
       CASE v[1] = "str" -> PyStr(<<v[2]>>)
         [] v[1] = "int" -> PyStr(<<ToString(v[2])>>)
         [] v[1] = "none" -> PyNone
         [] OTHER -> PyStr(Dumps(v))

\* json_extract(<column>, ?) LIKE ?
JsonFieldLike(text, field, value_like) ==
  /\ ~IsNone(JsonExtract(text, field))
  /\ Like(JsonExtract(text, field)[2], value_like)

\* a WHERE clause in which a filter excludes rows even when it was not given
WhereProfileStrict(r, f) ==
  /\ r.lang = (IF IsNone(f.lang) THEN "" ELSE f.lang[2])
  /\ Truthy(f.name_like) => Like(<<r.name>>, f.name_like[2])
  /\ Truthy(f.q) => \/ Like(<<r.name>>, f.q[2])
                    \/ Like(r.profile_json[2], f.q[2])
  /\ (Supplied(f.field) /\ Truthy(f.value_like)) =>
        JsonFieldLike(r.profile_json[2], f.field[2], f.value_like[2])

\* the WHERE clause search_character_profiles builds
WhereProfile(r, f) ==
  /\ Supplied(f.lang) => r.lang = f.lang[2]
  /\ Truthy(f.name_like) => Like(<<r.name>>, f.name_like[2])
  /\ Truthy(f.q) => \/ Like(<<r.name>>, f.q[2])
                    \/ Like(r.profile_json[2], f.q[2])
  /\ (Supplied(f.field) /\ Truthy(f.value_like)) =>
        JsonFieldLike(r.profile_json[2], f.field[2], f.value_like[2])

\* the WHERE clause search_character_templates builds
WhereTemplate(r, f) ==
  /\ Supplied(f.lang) => r.lang = f.lang[2]
  /\ Truthy(f.name_like) => Like(<<r.name>>, f.name_like[2])
  /\ Truthy(f.q) => \/ Like(<<r.name>>, f.q[2])
                    \/ Like(r.template_json[2], f.q[2])
                    \/ (~IsNone(r.source) /\ Like(<<r.source[2]>>, f.q[2]))
  /\ (Supplied(f.field) /\ Truthy(f.value_like)) =>
        JsonFieldLike(r.template_json[2], f.field[2], f.value_like[2])

ProfileSummary(r) ==
  [id |-> r.id, created_at |-> r.created_at, updated_at |-> r.updated_at,
   lang |-> r.lang, name |-> r.name]
TemplateSummary(r) ==
  [id |-> r.id, created_at |-> r.created_at, updated_at |-> r.updated_at,
   lang |-> r.lang, name |-> r.name, source |-> r.source]

\* SELECT ... FROM character_profiles WHERE ... ORDER BY updated_at DESC
\* LIMIT ?: the summaries, for each admissible order
ProfileSearchResults(f, limit) ==
  {LET rows == Limit(s, limit)
   IN [i \in 1..Len(rows) |-> ProfileSummary(rows[i])] :
     s \in OrderedBy({r \in profiles : WhereProfile(r, f)},
            LAMBDA r : 0 - r.updated_at)}

TemplateSearchResults(f, limit) ==
  {LET rows == Limit(s, limit)
   IN [i \in 1..Len(rows) |-> TemplateSummary(rows[i])] :
     s \in OrderedBy({r \in templates : WhereTemplate(r, f)},
            LAMBDA r : 0 - r.updated_at)}

\* search_character_profiles(lang, name_like, q, field, value_like, limit)
search_character_profiles(f, limit) ==
  /\ CanOpen(DB_PATH, dirs)
  /\ \E rows \in ProfileSearchResults(f, limit) :
       ret' = [op |-> "search_character_profiles", filters |-> f,
               limit |-> limit, result |-> rows]
  /\ UNCHANGED <<profVars, evalVars, now, runVars, apiVars>>

\* search_character_templates(lang, name_like, q, field, value_like, limit)
search_character_templates(f, limit) ==
  /\ CanOpen(DB_PATH, dirs)
  /\ \E rows \in TemplateSearchResults(f, limit) :
       ret' = [op |-> "search_character_templates", filters |-> f,
               limit |-> limit, result |-> rows]
  /\ UNCHANGED <<profVars, evalVars, now, runVars, apiVars>>

\* init_db() at a start of the process: eval_embeddings is created when the
\* sqlite-vec extension loads, and is kept when it already exists
init_db(extensionLoads) ==
  /\ OpensForInit
  /\ DB_PATH' = PathAfterEnsure
  /\ dirs' = [DirsAfterEnsure EXCEPT ![PathAfterEnsure.dir] = "database"]
  /\ vecTable' = (vecTable \/ extensionLoads)
  /\ ret' = [op |-> "init_db", raised |-> ""]
  /\ UNCHANGED <<profVars, evaluations, evalSeq, embeddings, distanceFn, saved,
                 now, teamVars, apiVars>>

\* the operations that call _ensure_dir before they connect, and those that
\* connect to DB_PATH as it is
EnsuringOps ==
  {"init_db", "save_character_profile", "save_character_template",
   "update_character_profile", "save_evaluation"}
ReadingOps ==
  {"get_character_profile", "get_character_profile_by_id",
   "get_character_template_by_id", "get_evaluation", "search_evaluations",
   "search_character_profiles", "search_character_templates"}

\* an operation of EnsuringOps fails on the directory: _ensure_dir raises the
\* OSError of the fallback makedirs, or sqlite3 raises OperationalError
ensuring_call_raises(op) ==
  /\ IF op = "init_db" THEN ~OpensForInit ELSE ~Opens
  /\ _ensure_dir
  /\ ret' = [op |-> op, raised |-> IF EnsureRaises THEN "OSError"
                                   ELSE "OperationalError"]
  /\ UNCHANGED <<profVars, evalVars, now, teamVars, apiVars>>

\* an operation of ReadingOps fails on the directory: sqlite3 raises
\* OperationalError
reading_call_raises(op) ==
  /\ ~CanOpen(DB_PATH, dirs)
  /\ ret' = [op |-> op, raised |-> "OperationalError"]
  /\ UNCHANGED <<profVars, evalVars, now, runVars, apiVars>>

----------------------------------------------------------------------------
(* Lookups by id and by (lang, name), at the persistence and the REST layer *)

\* a Python int outside the range of a 64-bit SQLite INTEGER
PyBigInt == <<"bigint">>

\* cur.execute(..., (id,)): sqlite3 raises OverflowError when it binds an int
\* that does not fit 64 bits
BindRaises(v) == v[1] = "bigint"

IdGetters ==
  {"get_character_profile_by_id", "get_character_template_by_id",
   "get_evaluation"}

\* what the getter returns for an id that binds
GetById(getter, id) ==
  CASE getter = "get_character_profile_by_id" -> get_character_profile_by_id(id)
    [] getter = "get_character_template_by_id" ->
         get_character_template_by_id(id)
    [] getter = "get_evaluation" -> get_evaluation(id)

Returned(op, arg, result) ==
  [op |-> op, arg |-> arg, raised |-> "", result |-> result, status |-> 0]
Raised(op, arg, error) ==
  [op |-> op, arg |-> arg, raised |-> error, result |-> PyNone, status |-> 0]
\* the response of a handler: 200 with the row, or the HTTPException it raises
Responded(op, arg, result) ==
  [op |-> op, arg |-> arg, raised |-> "", result |-> result,
   status |-> IF IsNone(result) THEN 404 ELSE 200]
\* an exception no handler catches: the server answers 500
Unhandled(op, arg, error) ==
  [op |-> op, arg |-> arg, raised |-> error, result |-> PyNone, status |-> 500]

\* a call of get_character_profile_by_id, get_character_template_by_id or
\* get_evaluation
call_getter(getter, v) ==
  /\ CanOpen(DB_PATH, dirs)
  /\ ret' = IF BindRaises(v) THEN Raised(getter, <<v>>, "OverflowError")
            ELSE Returned(getter, <<v>>, GetById(getter, v[2]))
  /\ UNCHANGED <<profVars, evalVars, now, runVars, apiVars>>

\* a call of get_character_profile(lang, name)
call_get_character_profile(lang, name) ==
  /\ CanOpen(DB_PATH, dirs)
  /\ ret' = Returned("get_character_profile", <<lang, name>>,
                     get_character_profile(lang, name))
  /\ UNCHANGED <<profVars, evalVars, now, runVars, apiVars>>

\* the handlers GET /profiles/{profile_id}, GET /templates/{template_id} and
\* GET /evaluations/{eval_id}: the path parameter is an int of any size
RestGetter(handler) ==
  CASE handler = "get_profile" -> "get_character_profile_by_id"
    [] handler = "get_template" -> "get_character_template_by_id"
    [] handler = "get_eval" -> "get_evaluation"
RestHandlers == {"get_profile", "get_template", "get_eval"}

get_by_id(handler, v) ==
  /\ CanOpen(DB_PATH, dirs)
  /\ ret' = IF BindRaises(v) THEN Unhandled(handler, <<v>>, "OverflowError")
            ELSE Responded(handler, <<v>>, GetById(RestGetter(handler), v[2]))
  /\ UNCHANGED <<profVars, evalVars, now, runVars, apiVars>>

\* POST /templates/{template_id}/use with a path parameter of any size:
\* get_character_template_by_id raises for an id that does not bind, and
\* nothing catches it; for any other id the handler runs as use_template
post_use_template(v, name, language, backstory, rel, persist) ==
  IF BindRaises(v)
  THEN /\ CanOpen(DB_PATH, dirs)
       /\ ret' = [NoCall EXCEPT !.op = "use_template", !.name = name,
                    !.arg = <<v>>, !.raised = "OverflowError"]
       /\ UNCHANGED <<profVars, evalVars, now, runVars, apiVars>>
  ELSE use_template(v[2], name, language, backstory, rel, persist)

\* GET /profiles/by_name
get_profile_by_name(language, name) ==
  /\ CanOpen(DB_PATH, dirs)
  /\ ret' = Responded("get_profile_by_name", <<language, name>>,
                      get_character_profile(language, name))
  /\ UNCHANGED <<profVars, evalVars, now, runVars, apiVars>>

----------------------------------------------------------------------------
(* save_character_profile statement by statement: POST /profiles runs each
   call in a thread of the pool, each call on a connection of its own *)

Threads == 1..MaxThreads

\* a thread that runs no call
Idle == [phase |-> "idle", lang |-> "", name |-> "", doc |-> PyNone,
         snapshot |-> {}, table |-> {}, seq |-> 0, row_id |-> 0]
NoConnections == [c \in Threads |-> Idle]

\* the connections that hold the database's write lock: they have written
\* and not yet committed
Writers == {c \in Threads : connections[c].phase \in {"written", "selected"}}

\* the committed table as it was when the connection was opened
WriteBaseAtConnect(c) == connections[c].snapshot

\* the table a statement of connection c works on when it takes the write
\* lock: the committed table
WriteBase(c) == profiles

\* create_profile: run_in_threadpool(save_character_profile, ...) enters the
\* call: _ensure_dir() and sqlite3.connect(DB_PATH)
save_connects(c, lang, name, doc) ==
  /\ connections[c].phase = "idle"
  /\ Opens
  /\ _ensure_dir
  /\ connections' = [connections EXCEPT ![c] =
       [Idle EXCEPT !.phase = "connected", !.lang = lang, !.name = name,
                    !.doc = doc, !.snapshot = profiles]]
  /\ UNCHANGED <<profVars, evalVars, now, teamVars, request, response, ret>>

\* cur.execute(INSERT ... ON CONFLICT ... DO UPDATE): the connection takes the
\* write lock, which no other connection may hold, and upserts its row
save_upserts(c) ==
  /\ connections[c].phase = "connected"
  /\ Writers = {}
  /\ \E bump \in BOOLEAN :
       LET conn == connections[c]
           seq == SeqAfterUpsert(WriteBase(c), profileSeq, conn.lang,
                                 conn.name, bump)
       IN /\ seq <= MaxProfiles
          /\ connections' = [connections EXCEPT ![c] =
               [conn EXCEPT !.phase = "written",
                            !.table = UpsertProfile(WriteBase(c), profileSeq,
                                        conn.lang, conn.name,
                                        PyStr(Dumps(conn.doc))),
                            !.seq = seq]]
  /\ UNCHANGED <<profVars, evalVars, now, runVars, request, response, ret>>

\* the INSERT waits for the write lock another connection holds; after the
\* connection's timeout (5 seconds) it raises OperationalError: database is
\* locked, and the call ends without a result
save_times_out(c) ==
  /\ connections[c].phase = "connected"
  /\ Writers # {}
  /\ connections' = [connections EXCEPT ![c].phase = "raised"]
  /\ UNCHANGED <<profVars, evalVars, now, runVars, request, response, ret>>

\* row = cur.execute(SELECT id ... WHERE lang = ? AND name = ?).fetchone()
save_selects(c) ==
  /\ connections[c].phase = "written"
  /\ connections' = [connections EXCEPT
       ![c].phase = "selected",
       ![c].row_id = SelectId(connections[c].table, connections[c].lang,
                              connections[c].name)]
  /\ UNCHANGED <<profVars, evalVars, now, runVars, request, response, ret>>

\* con.commit(); return int(row[0]): the write becomes the committed table,
\* the lock is released and the call returns
save_commits(c) ==
  /\ connections[c].phase = "selected"
  /\ profiles' = connections[c].table
  /\ profileSeq' = connections[c].seq
  /\ connections' = [connections EXCEPT ![c].phase = "returned"]
  /\ UNCHANGED <<templates, templateSeq, evalVars, now, runVars, request,
                 response, ret>>

----------------------------------------------------------------------------
(* The process environment and the task configuration loaders *)

\* the two teams, each with its own tasks directory
Teams == {"novel_eval", "character"}
\* the languages a tasks directory may hold a document for
TaskLangs == {"zh-CN", "en"}
\* <lang>.yaml is not there, holds a mapping, is not YAML, holds YAML that is
\* no mapping, or is empty
TaskFileStates == {"absent", "mapping", "malformed", "scalar", "empty"}

NoTaskFiles == [teamName \in Teams |-> [lang \in TaskLangs |-> "absent"]]

\* os.environ, the packages that can be imported and the tasks directories
Env(deepseekKey, geminiKey, openaiKey, ollama, tasks) ==
  [DEEPSEEK_API_KEY |-> deepseekKey, GEMINI_API_KEY |-> geminiKey,
   OPENAI_API_KEY |-> openaiKey, ollama |-> ollama, tasks |-> tasks]
DefaultEnv(deepseekKey) == Env(deepseekKey, FALSE, TRUE, FALSE, NoTaskFiles)

\* (base_dir / f"{lang}.yaml"): the state of that file
TaskFile(teamName, lang) ==
  IF lang \in TaskLangs THEN env.tasks[teamName][lang] ELSE "absent"

\* candidate: the requested document if candidate.exists(), else en.yaml
Candidate(teamName, lang) ==
  IF TaskFile(teamName, lang) # "absent" THEN lang ELSE "en"

\* the mapping a document of a language holds: the zh-CN document gives the
\* Summarizer a provider of its own, the en document names no agent
TaskDoc(lang) ==
  IF lang = "zh-CN"
  THEN PyDict(<< <<"language", PyStr(lang)>>,
                 <<"agents",
                   PyDict(<< <<"Summarizer",
                               PyDict(<< <<"provider", PyStr("gemini")>> >>)>> >>)>> >>)
  ELSE PyDict(<< <<"language", PyStr(lang)>> >>)

\* candidate.open() and yaml.safe_load(f): the value, or the error raised
OpenAndLoad(teamName, lang) ==
  CASE TaskFile(teamName, lang) = "absent" ->
         [raised |-> "FileNotFoundError", result |-> PyNone]
    [] TaskFile(teamName, lang) = "malformed" ->
         [raised |-> "YAMLError", result |-> PyNone]
    [] TaskFile(teamName, lang) = "mapping" ->
         [raised |-> "", result |-> TaskDoc(lang)]
    [] TaskFile(teamName, lang) = "scalar" ->
         [raised |-> "", result |-> PyList(<<>>)]
    [] TaskFile(teamName, lang) = "empty" -> [raised |-> "", result |-> PyNone]

\* novel_eval_team._load_task_config: any exception gives {}, and so does a
\* document that is empty or no mapping
LoadNovelConfig(lang) ==
  LET loaded == OpenAndLoad("novel_eval", Candidate("novel_eval", lang)) IN
  IF loaded.raised # "" THEN [raised |-> "", result |-> PyDict(<<>>)]
  ELSE IF loaded.result[1] # "dict" THEN [raised |-> "", result |-> PyDict(<<>>)]
  ELSE loaded

\* character_team._load_task_config: what open and yaml.safe_load give
LoadCharacterConfig(lang) ==
  OpenAndLoad("character", Candidate("character", lang))

\* _load_task_config(answer_language) of either team
_load_task_config(teamName, lang) ==
  /\ LET loaded == IF teamName = "novel_eval" THEN LoadNovelConfig(lang)
                   ELSE LoadCharacterConfig(lang)
     IN ret' = [op |-> "_load_task_config", team |-> teamName, lang |-> lang,
                raised |-> loaded.raised, result |-> loaded.result]
  /\ UNCHANGED <<profVars, evalVars, now, runVars, apiVars>>

----------------------------------------------------------------------------
(* The evaluation team: create_novel_eval_team and a_evaluate_chapter *)

\* os.getenv("NOVEL_EVAL_PROVIDER", "openai")
DEFAULT_PROVIDER == "openai"
\* os.getenv("NOVEL_EVAL_LANG", "zh-CN")
DEFAULT_ANSWER_LANGUAGE == "zh-CN"
\* os.getenv("NOVEL_EVAL_MODEL", "gpt-4o-mini")
DEFAULT_MODEL == "gpt-4o-mini"
\* max_rounds: int = 4
DefaultMaxRounds == 4

\* RoundRobinGroupChat([critic, copy_editor, continuity, summarizer])
Agents == <<"LiteraryCritic", "CopyEditor", "ContinuityChecker", "Summarizer">>

\* str.lower() on the provider names that occur
Lower(name) ==
  CASE name = "DeepSeek" -> "deepseek"
    [] name = "OpenAI" -> "openai"
    [] OTHER -> name

\* a Python string that is None or empty is falsy
Falsy(v) == IsNone(v) \/ v[2] = ""

\* chosen_model = model or DEFAULT_MODEL
ChosenModel(model) == IF Falsy(model) THEN DEFAULT_MODEL ELSE model[2]
\* chosen_provider = (provider or DEFAULT_PROVIDER).lower()
ChosenProvider(provider) ==
  Lower(IF Falsy(provider) THEN DEFAULT_PROVIDER ELSE provider[2])

NoClient == [model |-> "", provider |-> ""]

\* the error _build_model_client raises for a provider; "" when it returns.
\* OpenAIChatCompletionClient(model=...) without an api_key reads
\* OPENAI_API_KEY and raises OpenAIError when it is not set
BuildErrorAnyKey(chosen) ==
  IF chosen \in {"openai", "deepseek", "gemini", "ollama"} THEN ""
  ELSE "ValueError"
BuildError(chosen) ==
  CASE chosen = "openai" ->
         IF env.OPENAI_API_KEY THEN "" ELSE "OpenAIError"
    [] chosen = "deepseek" ->
         IF env.DEEPSEEK_API_KEY THEN "" ELSE "RuntimeError"
    [] chosen = "gemini" ->
         IF env.GEMINI_API_KEY THEN "" ELSE "RuntimeError"
    [] chosen = "ollama" ->
         IF env.ollama THEN "" ELSE "RuntimeError"
    [] OTHER -> "ValueError"

\* _build_model_client(model, provider): the error raised and the client
BuildModelClient(model, provider) ==
  [raised |-> BuildError(ChosenProvider(provider)),
   client |-> IF BuildError(ChosenProvider(provider)) = ""
              THEN [model |-> ChosenModel(model),
                    provider |-> ChosenProvider(provider)]
              ELSE NoClient]

\* f"{answer_language}": None is formatted as "None"
LangName(answer_language) ==
  IF IsNone(answer_language) THEN "None" ELSE answer_language[2]

\* agents_cfg.get(agent, {}).get(key, fallback)
AgentSetting(cfg, agent, key, fallback) ==
  IF DictHas(cfg, "agents") /\ DictHas(DictGet(cfg, "agents"), agent)
     /\ DictHas(DictGet(DictGet(cfg, "agents"), agent), key)
  THEN DictGet(DictGet(DictGet(cfg, "agents"), agent), key)
  ELSE PyStr(fallback)

\* the _build_model_client call create_novel_eval_team makes for each agent
AgentClients(model, provider, answer_language) ==
  LET cfg == LoadNovelConfig(LangName(answer_language)).result IN
  [i \in DOMAIN Agents |->
     BuildModelClient(
       AgentSetting(cfg, Agents[i], "model", ChosenModel(model)),
       AgentSetting(cfg, Agents[i], "provider", ChosenProvider(provider)))]

\* the agents whose client cannot be built
FailingAgents(model, provider, answer_language) ==
  {i \in DOMAIN Agents :
     AgentClients(model, provider, answer_language)[i].raised # ""}

Min(S) == CHOOSE x \in S : \A y \in S : x <= y

NoTeam == [built |-> FALSE, raised |-> "", calls |-> 0, clients |-> <<>>,
           language |-> PyNone, config |-> ""]

\* create_novel_eval_team(model, max_rounds, answer_language, provider): the
\* agents are built in order, each with a client of its own; the first call
\* that raises ends the construction
CreateTeam(model, provider, answer_language) ==
  LET clients == AgentClients(model, provider, answer_language)
      failing == FailingAgents(model, provider, answer_language)
      config == Candidate("novel_eval", LangName(answer_language))
  IN IF failing = {}
     THEN [built |-> TRUE, raised |-> "", calls |-> Len(Agents),
           clients |-> [i \in DOMAIN Agents |-> clients[i].client],
           language |-> answer_language, config |-> config]
     ELSE [built |-> FALSE, raised |-> clients[Min(failing)].raised,
           calls |-> Min(failing), clients |-> <<>>,
           language |-> answer_language, config |-> config]

\* the error create_novel_eval_team raises, "" when it returns a team
TeamBuildError(model, provider, answer_language) ==
  CreateTeam(model, provider, answer_language).raised

\* _build_model_client called on its own
_build_model_client(model, provider) ==
  /\ ret' = [op |-> "_build_model_client", model |-> model,
             provider |-> provider,
             raised |-> BuildModelClient(model, provider).raised,
             client |-> BuildModelClient(model, provider).client]
  /\ UNCHANGED <<profVars, evalVars, now, runVars, apiVars>>

\* create_novel_eval_team called on its own
create_novel_eval_team(model, provider, answer_language) ==
  /\ runState # "Running"
  /\ team' = CreateTeam(model, provider, answer_language)
  /\ UNCHANGED <<profVars, evalVars, env, pathVars, runState, maxMessages,
                 messageCount, nextSpeaker, transcript, apiVars, now, ret>>

\* the task message: the preamble, then the chapter
TaskText(chapter) == <<"preamble", "CHAPTER:">> \o chapter
Message(source, content) == [source |-> source, content |-> content]

\* MaxMessageTermination(max_messages): the count after more messages arrive
CountMessages(count, arriving) == count + arriving
\* the termination condition fires once the count reaches the cap
CapReached(count, cap) == count >= cap

\* the round-robin manager: the agent after the one at index i
SpeakerAfter(i) == (i + 1) % Len(Agents)

\* team.run(task=task) starts: the task message opens the transcript and is
\* the first message the termination condition counts
RunStarts(chapter, max_rounds) ==
  /\ transcript' = <<Message("user", TaskText(chapter))>>
  /\ maxMessages' = max_rounds
  /\ messageCount' = CountMessages(0, 1)
  /\ nextSpeaker' = 0
  /\ runState' = IF CapReached(CountMessages(0, 1), max_rounds)
                 THEN "Terminated" ELSE "Running"

\* a_evaluate_chapter(chapter_text, model, max_rounds, answer_language, provider)
\* called directly: the team is built and the run starts, or the build raises
a_evaluate_chapter(chapter, model, provider, max_rounds, answer_language) ==
  /\ runState # "Running"
  /\ request.phase # "running"
  /\ team' = CreateTeam(model, provider, answer_language)
  /\ IF TeamBuildError(model, provider, answer_language) = ""
     THEN RunStarts(chapter, max_rounds)
     ELSE /\ runState' = "Failed"
          /\ transcript' = <<>>
          /\ maxMessages' = max_rounds
          /\ messageCount' = 0
          /\ nextSpeaker' = 0
  /\ UNCHANGED <<profVars, evalVars, env, pathVars, apiVars, now, ret>>

\* one turn: the next agent's completion returns content, which is appended to
\* the transcript and counted; the run ends when the cap is reached
AgentTurn(content) ==
  /\ runState = "Running"
  /\ transcript' = Append(transcript, Message(Agents[nextSpeaker + 1], content))
  /\ messageCount' = CountMessages(messageCount, 1)
  /\ nextSpeaker' = SpeakerAfter(nextSpeaker)
  /\ runState' = IF CapReached(CountMessages(messageCount, 1), maxMessages)
                 THEN "Terminated" ELSE "Running"
  /\ UNCHANGED <<profVars, evalVars, env, pathVars, maxMessages, team, apiVars,
                 now, ret>>

\* the next agent's completion call raises: the run is aborted
CompletionFails ==
  /\ runState = "Running"
  /\ runState' = "Failed"
  /\ UNCHANGED <<profVars, evalVars, env, pathVars, maxMessages, messageCount,
                 nextSpeaker, transcript, team, apiVars, now, ret>>

----------------------------------------------------------------------------
(* POST /evaluate *)

\* getattr(msg, "content", None) or getattr(msg, "text", None): a message of
\* the run has no text attribute, so empty content gives None
MessageText(msg) == IF msg.content # <<>> THEN PyStr(msg.content) ELSE PyNone

\* final_text: the text of the last message of the result
FinalText(messages) ==
  IF messages = <<>> THEN PyNone ELSE MessageText(messages[Len(messages)])

FinalJsonNeverDecoded(final_text) == PyNone

\* final_json: json.loads(final_text) when final_text is truthy and decodes
FinalJson(final_text) ==
  IF Truthy(final_text)
  THEN IF Loads(final_text[2]) = JsonError THEN PyNone
       ELSE Loads(final_text[2])
  ELSE PyNone

\* _safe_token_count(text, model_name) without tiktoken: len(text.split())
SafeTokenCount(text) == Len(text)

RECURSIVE OutputTokens(_)
\* the token counts of the messages that have content, summed
OutputTokens(messages) ==
  IF messages = <<>> THEN 0
  ELSE (IF IsNone(MessageText(messages[1])) THEN 0
        ELSE SafeTokenCount(messages[1].content))
       + OutputTokens(Tail(messages))

\* the rounds begun: the messages divided by 4, rounded up
ActualRoundsBegun(messages) == (Len(messages) + 3) \div 4

\* len(result.messages) // 4 if result.messages else 0
ActualRounds(messages) == Len(messages) \div 4

\* messages of the response: source and content of every message, or None
ResponseMessages(return_messages, messages) ==
  IF return_messages /\ messages # <<>>
  THEN PyList([i \in 1..Len(messages) |->
                 [name |-> messages[i].source,
                  content |-> IF messages[i].content # <<>>
                              THEN messages[i].content ELSE <<"str(msg)">>]])
  ELSE PyNone

\* EvaluateResponse accepts final_json: Optional[Dict[str, Any]]
ResponseValidates(final_json) == IsNone(final_json) \/ final_json[1] = "dict"

\* the handler's frame: the payload, its locals, and the evaluations table as
\* it was when the request arrived
Frame(phase, payload, final_text, final_json, eval_id, before) ==
  [phase |-> phase, payload |-> payload, final_text |-> final_text,
   final_json |-> final_json, eval_id |-> eval_id, before |-> before]

\* answer_language=(payload.answer_language if payload.answer_language
\* else None): the argument a_evaluate_chapter is called with
AnswerLanguageArgument(payload) ==
  IF Falsy(payload.answer_language) THEN PyNone ELSE payload.answer_language

\* the handler is entered: a_evaluate_chapter builds the team and starts the
\* run with the default cap; a build that raises is answered at once
evaluate_start(payload) ==
  /\ request.phase # "running"
  /\ runState # "Running"
  /\ payload.persist => evalSeq < MaxEvals
  /\ team' = CreateTeam(payload.model, payload.provider,
                         AnswerLanguageArgument(payload))
  /\ IF TeamBuildError(payload.model, payload.provider,
                       AnswerLanguageArgument(payload)) = ""
     THEN /\ RunStarts(payload.chapter_text, DefaultMaxRounds)
          /\ request' = Frame("running", payload, PyNone, PyNone, PyNone,
                               evaluations)
          /\ response' = NoResponse
     ELSE /\ runState' = "Failed"
          /\ transcript' = <<>>
          /\ maxMessages' = DefaultMaxRounds
          /\ messageCount' = 0
          /\ nextSpeaker' = 0
          /\ request' = Frame("raised", payload, PyNone, PyNone, PyNone,
                               evaluations)
          /\ response' = [status |-> 500,
                          detail |-> TeamBuildError(
                                       payload.model, payload.provider,
                                       AnswerLanguageArgument(payload))]
  /\ UNCHANGED <<profVars, evalVars, env, pathVars, connections, now, ret>>

\* the messages of a stubbed result: n messages, the agents in turn
StubMessages(n) ==
  [i \in 1..n |-> Message(Agents[((i - 1) % Len(Agents)) + 1], <<"fine">>)]

\* the handler is entered with a_evaluate_chapter replaced by a stub, as the
\* tests replace it: the awaited result holds n messages, whatever cap and
\* agents produced them
evaluate_stubbed(payload, n) ==
  /\ request.phase # "running"
  /\ runState # "Running"
  /\ payload.persist => evalSeq < MaxEvals
  /\ runState' = "Terminated"
  /\ transcript' = StubMessages(n)
  /\ maxMessages' = n
  /\ messageCount' = n
  /\ nextSpeaker' = 0
  /\ request' = Frame("running", payload, PyNone, PyNone, PyNone, evaluations)
  /\ response' = NoResponse
  /\ UNCHANGED <<profVars, evalVars, env, team, pathVars, connections, now, ret>>

\* the awaited run raised: except Exception -> HTTPException(500)
evaluate_raises ==
  /\ request.phase = "running"
  /\ runState = "Failed"
  /\ request' = [request EXCEPT !.phase = "raised"]
  /\ response' = [status |-> 500, detail |-> "completion failed"]
  /\ UNCHANGED <<profVars, evalVars, runVars, connections, now, ret>>

PersistsAlways(persist) == TRUE

\* if payload.persist
Persists(persist) == persist

\* the awaited run returned: the result is interpreted, saved when the payload
\* asks for it, and answered
evaluate_returns ==
  /\ request.phase = "running"
  /\ runState = "Terminated"
  /\ LET payload == request.payload
         final_text == FinalText(transcript)
         final_json == FinalJson(final_text)
         input_tokens == SafeTokenCount(payload.chapter_text)
         output_tokens == OutputTokens(transcript)
         a == [provider |-> payload.provider, model |-> payload.model,
               lang |-> payload.answer_language,
               rounds |-> ActualRounds(transcript),
               input_tokens |-> input_tokens, output_tokens |-> output_tokens,
               total_tokens |-> input_tokens + output_tokens,
               chapter_text |-> payload.chapter_text,
               final_text |-> final_text, final_json |-> final_json]
         eval_id == IF Persists(payload.persist)
                    THEN PyInt(NextRowId(evalSeq)) ELSE PyNone
     IN /\ IF Persists(payload.persist)
           THEN save_evaluation(a)
           ELSE UNCHANGED <<evalVars, ret, pathVars>>
        /\ request' = Frame("returned", payload, final_text, final_json,
                             eval_id, request.before)
        /\ response' =
             IF ResponseValidates(final_json)
             THEN [status |-> 200, id |-> eval_id, final_text |-> final_text,
                   final_json |-> final_json,
                   messages |-> ResponseMessages(payload.return_messages,
                                                 transcript)]
             ELSE [status |-> 500, detail |-> "ValidationError"]
  /\ UNCHANGED <<profVars, teamVars, connections, now>>

\* CURRENT_TIMESTAMP advances between calls
Tick ==
  /\ now < MaxClock
  /\ now' = now + 1
  /\ UNCHANGED <<profVars, evalVars, ret, runVars, apiVars>>

\* the tables after init_db on a fresh database file
InitProfiles ==
  /\ profiles = {}
  /\ profileSeq = 0
  /\ templates = {}
  /\ templateSeq = 0

\* init_db: eval_embeddings exists only if the vec0 module loaded (or a plain
\* table stands in for it); distance() only if the connection registers it
InitEvals(vec, dist) ==
  /\ evaluations = {}
  /\ evalSeq = 0
  /\ embeddings = {}
  /\ vecTable = vec
  /\ distanceFn = dist
  /\ saved = <<>>

\* no team run and no request yet
InitRunIn(environment) ==
  /\ env = environment
  /\ DB_PATH = DefaultPath
  /\ dirs = [d \in {ConfiguredDir, FallbackDir} |->
               IF d = ConfiguredDir THEN "database" ELSE "writable"]
  /\ runState = "Idle"
  /\ maxMessages = 0
  /\ messageCount = 0
  /\ nextSpeaker = 0
  /\ transcript = <<>>
  /\ team = NoTeam
  /\ request = NoRequest
  /\ response = NoResponse
  /\ connections = NoConnections

InitRun(deepseekKey) == InitRunIn(DefaultEnv(deepseekKey))

StoreInit ==
  /\ InitProfiles
  /\ InitEvals(FALSE, FALSE)
  /\ InitRun(FALSE)
  /\ now = 0
  /\ ret = NoCall

\* what the callers of this specification send
StoreDocs == {EmptyDoc, MageDoc}
TemplateDocs == {HeroDoc}
TemplateNames == {"Ann"}
UpdateDocs == {MageDoc}
TemplateLangs == {"en"}
UpdateNames == {"Bob"}
UpdateLangs == {"zh"}

StoreNext ==
  \/ \E lang \in Langs, name \in Names, doc \in StoreDocs :
       save_character_profile(lang, name, doc)
  \/ \E lang \in TemplateLangs, name \in TemplateNames, doc \in TemplateDocs,
        source \in Sources :
       save_character_template(lang, name, doc, source)
  \/ \E id \in 1..(MaxProfiles + 1), doc \in UpdateDocs,
        name \in Opt(UpdateNames), lang \in Opt(UpdateLangs) :
       update_character_profile(id, doc, name, lang)
  \/ \E id \in 1..(MaxTemplates + 1), name \in Names,
        language \in Opt(UpdateLangs), persist \in BOOLEAN :
       use_template(id, name, language, PyNone, PyNone, persist)

vars == <<profVars, evalVars, runVars, apiVars, now, ret>>
SpecStore == StoreInit /\ [][StoreNext]_vars

----------------------------------------------------------------------------
(* Specification SpecUpdate: profiles are saved and then updated by id *)

UpdateInit == StoreInit

UpdateNext ==
  \/ \E lang \in Langs, name \in Names :
       save_character_profile(lang, name, EmptyDoc)
  \/ \E id \in 1..(MaxProfiles + 1), doc \in UpdateDocs,
        name \in Opt(UpdateNames), lang \in Opt(UpdateLangs) :
       update_character_profile(id, doc, name, lang)
  \/ Tick

SpecUpdate == UpdateInit /\ [][UpdateNext]_vars

----------------------------------------------------------------------------
(* The evaluations store under direct calls of save_evaluation and
   search_evaluations *)

ScoreDoc == PyDict(<< <<"score", PyInt(8)>> >>)

EvalArgs(provider, model, lang, rounds, tokens, chapter, final_text, final_json) ==
  [provider |-> provider, model |-> model, lang |-> lang, rounds |-> rounds,
   input_tokens |-> tokens[1], output_tokens |-> tokens[2],
   total_tokens |-> tokens[3], chapter_text |-> chapter,
   final_text |-> final_text, final_json |-> final_json]

\* the calls of save_evaluation this specification makes
SaveInputs ==
  {EvalArgs(PyNone, PyNone, PyNone, 0, <<0, 0, 0>>, MysteryTale, PyNone, PyNone),
   EvalArgs(PyStr("openai"), PyStr("gpt-4o-mini"), PyStr("en"), 1, <<2, 7, 9>>,
            MysteryTale, PyStr(Dumps(ScoreDoc)), ScoreDoc),
   EvalArgs(PyStr("ollama"), PyNone, PyStr("zh"), 0, <<0, 0, 0>>, NoText,
            PyStr(NoText), EmptyDoc),
   EvalArgs(PyNone, PyStr("m"), PyNone, 1, <<2, 1, 3>>, OtherStory,
            PyStr(<<"fine">>), PyNone)}

Queries == {<<"Mystery">>, <<"story">>, NoText}

EvalsInit ==
  /\ InitProfiles
  /\ InitRun(FALSE)
  /\ \E vec \in BOOLEAN, dist \in BOOLEAN : InitEvals(vec, dist)
  /\ now = 0
  /\ ret = NoCall

EvalsNext ==
  \/ \E a \in SaveInputs : SaveCall(a)
  \/ \E q \in Queries, k \in 1..MaxTopK : search_evaluations(q, k)
  \/ Tick

SpecEvals == EvalsInit /\ [][EvalsNext]_vars

----------------------------------------------------------------------------
(* SpecSearch: saves and searches while the vector extension comes and goes *)

SearchTexts == {MysteryTale, OtherStory}
SearchSaves ==
  {EvalArgs(PyNone, PyNone, PyNone, 0, <<0, 0, 0>>, text, PyNone, PyNone) :
     text \in SearchTexts}
SearchQueries == {<<"Mystery">>, <<"mystery">>, <<"%">>, <<"story">>}

SearchInit ==
  /\ InitProfiles
  /\ InitRun(FALSE)
  /\ \E dist \in BOOLEAN : InitEvals(FALSE, dist)
  /\ now = 0
  /\ ret = NoCall

SearchNext ==
  \/ \E extensionLoads \in BOOLEAN : init_db(extensionLoads)
  \/ \E a \in SearchSaves : SaveCall(a)
  \/ \E q \in SearchQueries, k \in 1..MaxTopK : search_evaluations(q, k)
  \/ Tick

SpecSearch == SearchInit /\ [][SearchNext]_vars

----------------------------------------------------------------------------
(* SpecEmbed: texts are embedded before and after evaluations of the same
   texts are saved and searched for *)

EmbedTexts == SearchTexts \cup {NoText}

EmbedInit ==
  /\ InitProfiles
  /\ InitRun(FALSE)
  /\ InitEvals(TRUE, TRUE)
  /\ now = 0
  /\ ret = NoCall

EmbedNext ==
  \/ \E a \in SearchSaves : SaveCall(a)
  \/ \E text \in EmbedTexts, dim \in 0..EmbedDim : _pseudo_embed(text, dim)
  \/ \E q \in EmbedTexts, k \in 1..MaxTopK : search_evaluations(q, k)
  \/ Tick

SpecEmbed == EmbedInit /\ [][EmbedNext]_vars

----------------------------------------------------------------------------
(* SpecRecords: evaluations are saved before and after the vector table is
   there, and are read by id and searched *)

RecordsInit ==
  /\ InitProfiles
  /\ InitRun(FALSE)
  /\ InitEvals(FALSE, TRUE)
  /\ now = 0
  /\ ret = NoCall

RecordsNext ==
  \/ \E extensionLoads \in BOOLEAN : init_db(extensionLoads)
  \/ \E a \in SearchSaves : SaveCall(a)
  \/ \E q \in SearchTexts : search_evaluations(q, MaxTopK)
  \/ \E id \in 1..MaxEvals : call_getter("get_evaluation", PyInt(id))
  \/ Tick

SpecRecords == RecordsInit /\ [][RecordsNext]_vars

----------------------------------------------------------------------------
(* SpecFind: profiles and templates are saved and searched *)

\* the profiles and the template the callers of this specification save
FindSaves == {<<"en", "Ann", MageDoc>>, <<"zh", "Bob", EmptyDoc>>}
\* single filters, and the pairs of them a search may combine
LangIs(lang) == Filters(PyStr(lang), PyNone, PyNone, PyNone, PyNone)
NameLike(name) == Filters(PyNone, PyStr(name), PyNone, PyNone, PyNone)
FreeText(q) == Filters(PyNone, PyNone, PyStr(q), PyNone, PyNone)
FieldLike(field, value) ==
  Filters(PyNone, PyNone, PyNone, PyStr(field), PyStr(value))
FilterPairs ==
  {<<LangIs("en"), NameLike(<<"ann">>)>>,
   <<LangIs(""), NameLike(<<"%">>)>>,
   <<LangIs("zh"), FreeText(<<"Mage">>)>>,
   <<NameLike(<<"ann">>), FieldLike("role", <<"mage">>)>>,
   <<FreeText(<<"history">>), FieldLike("backstory", <<"orphan">>)>>,
   <<LangIs("en"), Filters(PyNone, PyNone, PyNone, PyStr("role"), PyNone)>>}
\* the searches the callers of this specification make
ProfileSearches == {NameLike(<<"ann">>), NameLike(<<"%">>)}
TemplateSearches == {FreeText(<<"history">>)}

FindInit ==
  /\ InitProfiles
  /\ InitEvals(FALSE, FALSE)
  /\ InitRun(FALSE)
  /\ now = 0
  /\ ret = NoCall

FindNext ==
  \/ \E save \in FindSaves :
       save_character_profile(save[1], save[2], save[3])
  \/ save_character_template("en", "Ann", HeroDoc, PyStr("history"))
  \/ \E f \in ProfileSearches, limit \in 1..MaxLimit :
       search_character_profiles(f, limit)
  \/ \E f \in TemplateSearches, limit \in 1..MaxLimit :
       search_character_templates(f, limit)
  \/ Tick

SpecFind == FindInit /\ [][FindNext]_vars

----------------------------------------------------------------------------
(* Specification SpecUse: templates are saved and changed, and profiles are
   instantiated from them with every kind of override *)

\* the documents of the templates the callers of this specification save
UseDocs == {HeroDoc, MageDoc}

UseInit == StoreInit

UseNext ==
  \/ \E doc \in UseDocs : save_character_template("en", "Ann", doc, PyNone)
  \/ \E id \in 1..MaxTemplates, backstory \in BackstoryOverrides,
        rel \in RelOverrides, persist \in BOOLEAN :
       use_template(id, "Bob", PyNone, backstory, rel, persist)

SpecUse == UseInit /\ [][UseNext]_vars

----------------------------------------------------------------------------
(* Specification SpecInstantiate: profiles are instantiated from templates
   under a name that is free and under a name that is taken, with template
   ids that exist and that do not *)

UsePathIds == {PyInt(1), PyInt(2), PyBigInt}

InstantiateInit == StoreInit

InstantiateNext ==
  \/ \E doc \in UseDocs : save_character_template("en", "Ann", doc, PyNone)
  \/ \E name \in {"Bob", "Cid"} : save_character_profile("en", name, EmptyDoc)
  \/ \E v \in UsePathIds, backstory \in BackstoryOverrides, persist \in BOOLEAN :
       post_use_template(v, "Bob", PyNone, backstory, PyNone, persist)

SpecInstantiate == InstantiateInit /\ [][InstantiateNext]_vars

----------------------------------------------------------------------------
(* Specification SpecLookup: rows are saved and looked up by ids and names
   that exist and that do not *)

\* the ids the callers of this specification look up
LookupIds == {PyInt(0), PyInt(1), PyInt(2), PyBigInt}
LookupNames == {"Ann", "Bob"}
LookupSave ==
  EvalArgs(PyNone, PyNone, PyNone, 0, <<0, 0, 0>>, MysteryTale, PyNone, PyNone)

LookupInit == StoreInit

LookupNext ==
  \/ save_character_profile("en", "Ann", MageDoc)
  \/ save_character_template("en", "Ann", HeroDoc, PyNone)
  \/ SaveCall(LookupSave)
  \/ \E getter \in IdGetters, v \in LookupIds : call_getter(getter, v)
  \/ \E name \in LookupNames : call_get_character_profile("en", name)
  \/ \E handler \in RestHandlers, v \in LookupIds : get_by_id(handler, v)
  \/ \E name \in LookupNames : get_profile_by_name("en", name)

SpecLookup == LookupInit /\ [][LookupNext]_vars

----------------------------------------------------------------------------
(* Specification SpecDir: a process starts with the configured directory and
   the fallback directory in any state, and calls the store *)

\* os.path.basename of NOVEL_EVAL_DB_PATH
FileNames == {"evals.db", "my.db", ""}
StartStates == {"writable", "readonly", "creatable", "blocked"}
DirOps == {"init_db", "save_character_profile", "get_character_profile"}

DirInit ==
  /\ InitProfiles
  /\ InitEvals(FALSE, FALSE)
  /\ env = DefaultEnv(FALSE)
  /\ runState = "Idle"
  /\ maxMessages = 0
  /\ messageCount = 0
  /\ nextSpeaker = 0
  /\ transcript = <<>>
  /\ team = NoTeam
  /\ request = NoRequest
  /\ response = NoResponse
  /\ connections = NoConnections
  /\ \E file \in FileNames : DB_PATH = DbPath(ConfiguredDir, file)
  /\ \E configured \in StartStates, fallback \in StartStates :
       dirs = [d \in {ConfiguredDir, FallbackDir} |->
                 IF d = ConfiguredDir THEN configured ELSE fallback]
  /\ now = 0
  /\ ret = NoCall

DirNext ==
  \/ init_db(FALSE)
  \/ save_character_profile("en", "Ann", MageDoc)
  \/ call_get_character_profile("en", "Ann")
  \/ \E op \in DirOps \cap EnsuringOps : ensuring_call_raises(op)
  \/ \E op \in DirOps \cap ReadingOps : reading_call_raises(op)

SpecDir == DirInit /\ [][DirNext]_vars

----------------------------------------------------------------------------
(* SpecThreads: the pool's threads save profiles under one (lang, name) and
   under another at the same time *)

ThreadDocs == {MageDoc, HeroDoc}
ThreadNames == {"Ann", "Bob"}

ThreadsInit ==
  /\ InitProfiles
  /\ InitEvals(FALSE, FALSE)
  /\ InitRun(FALSE)
  /\ now = 0
  /\ ret = NoCall

ThreadsNext ==
  \/ \E c \in Threads, name \in ThreadNames, doc \in ThreadDocs :
       save_connects(c, "en", name, doc)
  \/ \E c \in Threads : save_upserts(c)
  \/ \E c \in Threads : save_times_out(c)
  \/ \E c \in Threads : save_selects(c)
  \/ \E c \in Threads : save_commits(c)

SpecThreads == ThreadsInit /\ [][ThreadsNext]_vars

----------------------------------------------------------------------------
(* Specification SpecConfig: the tasks directories hold any documents, and
   the loaders are asked for languages that are there and that are not *)

RequestedLangs == {"zh-CN", "en", "fr"}

ConfigInit ==
  /\ InitProfiles
  /\ InitEvals(FALSE, FALSE)
  /\ \E tasks \in [Teams -> [TaskLangs -> TaskFileStates]] :
       env = Env(FALSE, FALSE, TRUE, FALSE, tasks)
  /\ DB_PATH = DefaultPath
  /\ dirs = [d \in {ConfiguredDir, FallbackDir} |->
               IF d = ConfiguredDir THEN "database" ELSE "writable"]
  /\ runState = "Idle"
  /\ maxMessages = 0
  /\ messageCount = 0
  /\ nextSpeaker = 0
  /\ transcript = <<>>
  /\ team = NoTeam
  /\ request = NoRequest
  /\ response = NoResponse
  /\ connections = NoConnections
  /\ now = 0
  /\ ret = NoCall

ConfigNext ==
  \E teamName \in Teams, lang \in RequestedLangs :
     _load_task_config(teamName, lang)

SpecConfig == ConfigInit /\ [][ConfigNext]_vars

----------------------------------------------------------------------------
(* Specification SpecClient: any credentials may be set, the zh-CN task
   document may be there, and clients and teams are built for any provider *)

ClientProviders ==
  {PyNone, PyStr(""), PyStr("openai"), PyStr("DeepSeek"), PyStr("deepseek"),
   PyStr("gemini"), PyStr("ollama"), PyStr("bogus")}
ClientLanguages == {PyStr("zh-CN"), PyStr("en")}

\* os.environ and the tasks directory as the process finds them
ClientEnvironments ==
  {Env(d, g, o, l, [NoTaskFiles EXCEPT !["novel_eval"]["zh-CN"] = z]) :
     d \in BOOLEAN, g \in BOOLEAN, o \in BOOLEAN, l \in BOOLEAN,
     z \in {"absent", "mapping"}}

ClientInit ==
  /\ InitProfiles
  /\ InitEvals(FALSE, FALSE)
  /\ \E environment \in ClientEnvironments : InitRunIn(environment)
  /\ now = 0
  /\ ret = NoCall

ClientNext ==
  \/ \E provider \in ClientProviders : _build_model_client(PyNone, provider)
  \/ \E provider \in ClientProviders, answer_language \in ClientLanguages :
       create_novel_eval_team(PyNone, provider, answer_language)

SpecClient == ClientInit /\ [][ClientNext]_vars

----------------------------------------------------------------------------
(* SpecTeam: runs of the evaluation team started directly *)

Chapters == {MysteryTale}
TeamProviders == {PyNone, PyStr("deepseek"), PyStr("bogus")}
TeamReplies == {<<"fine">>, Dumps(ScoreDoc)}

TeamInit ==
  /\ InitProfiles
  /\ InitEvals(FALSE, FALSE)
  /\ \E deepseekKey \in BOOLEAN : InitRun(deepseekKey)
  /\ now = 0
  /\ ret = NoCall

TeamNext ==
  \/ \E chapter \in Chapters, provider \in TeamProviders,
        max_rounds \in 1..MaxRounds :
       a_evaluate_chapter(chapter, PyNone, provider, max_rounds,
                          PyStr(DEFAULT_ANSWER_LANGUAGE))
  \/ \E content \in TeamReplies : AgentTurn(content)
  \/ CompletionFails

SpecTeam == TeamInit /\ [][TeamNext]_vars

----------------------------------------------------------------------------
(* SpecApi: requests to POST /evaluate, one at a time *)

ApiProviders == {PyNone, PyStr("bogus")}
\* what the agent that speaks third or fourth may answer: prose, a JSON
\* object, nothing, cut-off JSON, a JSON array
FinalReplies ==
  {<<"fine">>, Dumps(ScoreDoc), <<>>, <<"{">>, Dumps(PyList(<<PyInt(8)>>))}
ApiReplies(agent) ==
  IF agent \in {"LiteraryCritic", "CopyEditor"} THEN {<<"fine">>}
  ELSE FinalReplies

\* EvaluateRequest
Payloads ==
  [chapter_text : Chapters, model : {PyNone}, provider : ApiProviders,
   answer_language : {PyNone}, return_messages : BOOLEAN, persist : BOOLEAN]

ApiInit ==
  /\ InitProfiles
  /\ InitEvals(FALSE, FALSE)
  /\ InitRun(FALSE)
  /\ now = 0
  /\ ret = NoCall

\* the agent whose turn it is answers
ApiTurn ==
  \E content \in ApiReplies(Agents[nextSpeaker + 1]) : AgentTurn(content)

ApiNext ==
  \/ \E payload \in Payloads : evaluate_start(payload)
  \/ ApiTurn
  \/ CompletionFails
  \/ evaluate_raises
  \/ evaluate_returns

SpecApi == ApiInit /\ [][ApiNext]_vars

----------------------------------------------------------------------------
(* SpecRounds: requests to POST /evaluate whose awaited result holds any
   number of messages *)

RoundsPayloads ==
  [chapter_text : Chapters, model : {PyNone}, provider : {PyNone},
   answer_language : {PyNone}, return_messages : {FALSE}, persist : BOOLEAN]

RoundsNext ==
  \/ \E payload \in RoundsPayloads, n \in 0..MaxRounds :
       evaluate_stubbed(payload, n)
  \/ \E payload \in RoundsPayloads : evaluate_start(payload)
  \/ AgentTurn(<<"fine">>)
  \/ evaluate_returns

SpecRounds == ApiInit /\ [][RoundsNext]_vars

----------------------------------------------------------------------------
(* The claims about the store of profiles and templates *)

UniqueKeys(table) ==
  \A r1 \in table : \A r2 \in table :
     (r1.lang = r2.lang /\ r1.name = r2.name) => r1 = r2

\* C1: after any sequence of save_character_profile, update_character_profile,
\* use_template and save_character_template calls, no two stored profiles
\* share a (lang, name) pair and no two stored templates share one.
C1_UniqueNaturalKey == UniqueKeys(profiles) /\ UniqueKeys(templates)

\* a template was saved again under its pair while two profiles are stored
C1_Witness ==
  /\ ret.op = "save_character_template" /\ ret.conflict
  /\ Cardinality(profiles) >= 2

\* C2: a save under a (lang, name) pair that is already stored returns the id
\* of the existing row, leaves exactly one row for the pair and makes the
\* stored document the one supplied; every save returns the id of the one row
\* of its pair, so saving the same document twice returns the same id twice.
C2_UpsertReturnsExistingRow ==
  /\ ret.op = "save_character_profile" =>
       /\ Cardinality(RowsByKey(profiles, ret.lang, ret.name)) = 1
       /\ ret.result = PyInt(SelectId(profiles, ret.lang, ret.name))
       /\ ret.conflict => ret.result = PyInt(ret.id)
       /\ get_character_profile(ret.lang, ret.name)[2].profile = ret.doc
  /\ ret.op = "save_character_template" =>
       /\ Cardinality(RowsByKey(templates, ret.lang, ret.name)) = 1
       /\ ret.result = PyInt(SelectId(templates, ret.lang, ret.name))
       /\ ret.conflict => ret.result = PyInt(ret.id)
       /\ get_character_template_by_id(ret.result[2])[2].template = ret.doc

\* a profile was saved again under its pair, next to another profile
C2_Witness ==
  /\ ret.op = "save_character_profile" /\ ret.conflict
  /\ Cardinality(profiles) = 2

----------------------------------------------------------------------------
(* The claims about the evaluations store *)

\* C8: save_evaluation inserts and commits the evaluation record and returns
\* its positive id whether or not the embedding step succeeds: a failing
\* embedding insert neither raises to the caller nor undoes the record insert.
C8_RecordSurvivesEmbeddingFailure ==
  ret.op = "save_evaluation" =>
    /\ ret.raised = ""
    /\ ret.result[1] = "int" /\ ret.result[2] > 0
    /\ Cardinality(RowsById(evaluations, ret.result[2])) = 1
    /\ saved[Len(saved)].id = ret.result[2]
    /\ ~IsNone(get_evaluation(ret.result[2]))

\* a save returned while the embeddings table was missing, after an earlier save
C8_Witness ==
  /\ ret.op = "save_evaluation"
  /\ ~vecTable
  /\ embeddings = {}
  /\ Len(saved) >= 2

\* the values get_evaluation returns for a row, as save_evaluation took them
ReadBack(row) ==
  [provider |-> row.provider, model |-> row.model, lang |-> row.lang,
   rounds |-> row.rounds, input_tokens |-> row.input_tokens,
   output_tokens |-> row.output_tokens, total_tokens |-> row.total_tokens,
   chapter_text |-> row.chapter_text, final_text |-> row.final_text,
   final_json |-> row.final_json]

\* C9: for every id save_evaluation returned, get_evaluation(id) returns
\* exactly the values passed to that save (final_json deep-equal, None staying
\* None), after any later saves; distinct saves return distinct ids.
C9_GetReturnsWhatWasSaved ==
  /\ \A i \in DOMAIN saved :
       /\ ~IsNone(get_evaluation(saved[i].id))
       /\ get_evaluation(saved[i].id)[2].id = saved[i].id
       /\ ReadBack(get_evaluation(saved[i].id)[2]) = saved[i].args
  /\ \A i \in DOMAIN saved : \A j \in DOMAIN saved :
       i # j => saved[i].id # saved[j].id

\* an empty structure and an absent one were both saved, the first before the
\* second
C9_Witness ==
  \E i \in DOMAIN saved : \E j \in DOMAIN saved :
    /\ i < j
    /\ saved[i].args.final_json = EmptyDoc
    /\ IsNone(saved[j].args.final_json)

SummaryFields ==
  {"id", "created_at", "provider", "model", "lang", "rounds", "final_text",
   "final_json"}

\* C10: for every store state, query and top_k >= 1, search_evaluations
\* returns a list of at most top_k summaries, each with the same set of
\* fields, whichever path served the request.
C10_SearchShape ==
  ret.op = "search_evaluations" =>
    /\ Len(ret.result) <= ret.top_k
    /\ \A i \in DOMAIN ret.result : DOMAIN ret.result[i] = SummaryFields

\* a search served by the vector path cut its result to top_k
C10_Witness ==
  /\ ret.op = "search_evaluations"
  /\ ret.path = "vector"
  /\ Len(ret.result) = ret.top_k
  /\ Cardinality(embeddings) > ret.top_k

----------------------------------------------------------------------------
(* The claims about the run of the evaluation team *)

\* the positions in the transcript of the messages an agent produced
AgentMessages == {k \in DOMAIN transcript : transcript[k].source # "user"}
\* the 0-indexed turns on which the agent at position i spoke
TurnsOf(i) ==
  {t \in 0..(Cardinality(AgentMessages) - 1) :
     transcript[t + 2].source = Agents[i + 1]}
CeilDiv(a, b) == IF a <= 0 THEN 0 ELSE (a + b - 1) \div b

\* C3: a run in which no completion call fails terminates after exactly M
\* agent turns, M the message cap, never fewer and never more
C3_ExactlyCapAgentTurns ==
  runState = "Terminated" => Cardinality(AgentMessages) = maxMessages

\* C4: the agent at position i speaks exactly on the turns i, i+N, i+2N, ...
\* below the cap M, that is ceil((M-i)/N) times, never out of rotation order
C4_RoundRobinTurns ==
  runState = "Terminated" =>
    \A i \in 0..(Len(Agents) - 1) :
       /\ TurnsOf(i) = {t \in 0..(maxMessages - 1) : t % Len(Agents) = i}
       /\ Cardinality(TurnsOf(i)) = CeilDiv(maxMessages - i, Len(Agents))

\* C5: with the default cap of 4 and the four agents, each agent speaks
\* exactly once and the last message of the transcript is the Summarizer's
C5_SummarizerSpeaksLast ==
  (runState = "Terminated" /\ maxMessages = DefaultMaxRounds) =>
    /\ \A i \in 0..(Len(Agents) - 1) : Cardinality(TurnsOf(i)) = 1
    /\ transcript[Len(transcript)].source = "Summarizer"

----------------------------------------------------------------------------
(* The claims about POST /evaluate *)

\* C6: a request whose run raised is answered with one error and leaves the
\* evaluations table as it was; a request whose run returned adds exactly one
\* record when persist is true, and none, with a null id, when it is false
C6_PersistOnlyAfterRun ==
  /\ request.phase = "raised" =>
       /\ response.status = 500
       /\ evaluations = request.before
  /\ (request.phase = "returned" /\ request.payload.persist) =>
       /\ request.before \subseteq evaluations
       /\ Cardinality(evaluations \ request.before) = 1
  /\ (request.phase = "returned" /\ ~request.payload.persist) =>
       /\ evaluations = request.before
       /\ request.eval_id = PyNone
       /\ response.status = 200 => response.id = PyNone

C6_Witness ==
  /\ request.phase = "returned"
  /\ request.payload.persist
  /\ Cardinality(evaluations) = 2
  /\ Cardinality(request.before) = 1
  /\ response.status = 200
  /\ response.id = PyInt(2)

\* the content of the last message of the transcript
RawText == transcript[Len(transcript)].content

----------------------------------------------------------------------------
(* The claims about search_evaluations *)

\* the query occurs in the text, token for token
Contains(text, query) ==
  \E k \in 0..(Len(text) - Len(query)) :
     SubSeq(text, k + 1, k + Len(query)) = query

ResultIds(result) == [i \in DOMAIN result |-> result[i].id]
EvalById(id) == CHOOSE r \in evaluations : r.id = id
Smaller(a, b) == IF a <= b THEN a ELSE b

\* the result is the rows of matching, most recent first, cut to top_k
RecentFirstCut(result, matching, top_k) ==
  LET ids == ResultIds(result) IN
  /\ Len(ids) = Smaller(top_k, Cardinality(matching))
  /\ \A i \in DOMAIN ids : \A j \in DOMAIN ids : i # j => ids[i] # ids[j]
  /\ \A i \in DOMAIN ids : \E r \in matching : r.id = ids[i]
  /\ \A i \in DOMAIN ids : \A j \in DOMAIN ids :
       i < j => EvalById(ids[i]).created_at >= EvalById(ids[j]).created_at
  /\ \A r \in matching :
       (\A i \in DOMAIN ids : ids[i] # r.id) =>
          \A i \in DOMAIN ids : EvalById(ids[i]).created_at >= r.created_at

\* C11 as stated: when the vector path is unavailable or raises, the search
\* returns the evaluations whose chapter_text contains the query as a
\* substring, most recent first, cut to top_k
C11_FallbackIsSubstring ==
  ret.op = "search_evaluations" =>
    /\ ~VectorQueryRuns => ret.path = "like"
    /\ ret.path = "like" =>
         RecentFirstCut(ret.result,
                        {r \in evaluations : Contains(r.chapter_text, ret.query)},
                        ret.top_k)

\* C11: when the vector path is unavailable or raises, the search does not
\* raise and returns the evaluations whose chapter_text matches the query
\* under LIKE '%query%' (letters compared without case, % in the query
\* matching any run of text), most recent first, cut to top_k
C11_FallbackIsLike ==
  ret.op = "search_evaluations" =>
    /\ ~VectorQueryRuns => ret.path = "like"
    /\ ret.path = "like" =>
         RecentFirstCut(ret.result,
                        {r \in evaluations : Like(r.chapter_text, ret.query)},
                        ret.top_k)

\* a fallback search found a chapter whose text differs from the query in case
C11_Witness ==
  /\ ret.op = "search_evaluations"
  /\ ~VectorQueryRuns
  /\ ret.path = "like"
  /\ ret.query = <<"mystery">>
  /\ Cardinality(evaluations) >= 2
  /\ Len(ret.result) = 1
  /\ EvalById(ret.result[1].id).chapter_text = MysteryTale

\* C12: an evaluation whose chapter_text contains the query is among the
\* results when the store holds at most top_k evaluations, whichever path
\* served the search and whichever evaluations have an embedding
C12_MatchingRecordIsFound ==
  ret.op = "search_evaluations" =>
    \A r \in evaluations :
       (Contains(r.chapter_text, ret.query)
          /\ Cardinality(evaluations) <= ret.top_k) =>
       \E i \in DOMAIN ret.result : ret.result[i].id = r.id

\* the distance of a stored embedding to the embedding of the query
DistanceTo(query, id) ==
  Distance((CHOOSE e \in embeddings : e.rowid = id).embedding,
           PseudoEmbed(query, EmbedDim))

\* C13: when the vector path serves the search, the result is the top_k
\* stored embeddings closest to the query's embedding, in ascending order of
\* distance
C13_VectorRanking ==
  (ret.op = "search_evaluations" /\ ret.path = "vector") =>
    LET ids == ResultIds(ret.result) IN
    /\ Len(ids) = Smaller(ret.top_k, Cardinality(embeddings))
    /\ \A i \in DOMAIN ids : \A j \in DOMAIN ids : i # j => ids[i] # ids[j]
    /\ \A i \in DOMAIN ids : \E e \in embeddings : e.rowid = ids[i]
    /\ \A i \in DOMAIN ids : \A j \in DOMAIN ids :
         i < j => DistanceTo(ret.query, ids[i]) <= DistanceTo(ret.query, ids[j])
    /\ \A e \in embeddings :
         (\A i \in DOMAIN ids : ids[i] # e.rowid) =>
            \A i \in DOMAIN ids :
               DistanceTo(ret.query, ids[i]) <= DistanceTo(ret.query, e.rowid)

\* the vector path ranked a later record before an earlier one
C13_Witness ==
  /\ ret.op = "search_evaluations"
  /\ ret.path = "vector"
  /\ Len(ret.result) = 2
  /\ ret.result[1].id > ret.result[2].id
  /\ DistanceTo(ret.query, ret.result[1].id)
       < DistanceTo(ret.query, ret.result[2].id)

----------------------------------------------------------------------------
(* The claims about update_character_profile *)

\* C14: every call of update_character_profile completes without raising and
\* returns True exactly when a profile row with that id exists
C14_UpdateNeverRaises ==
  ret.op = "update_character_profile" =>
    /\ ret.raised = ""
    /\ ret.ok = (RowsById(profiles, ret.id) # {})

\* C15: a successful update changes only the row with that id: its document
\* is replaced, its name changes only when a name is supplied, its lang only
\* when a lang is supplied; its id and every other row stay as they were
C15_UpdateFrame ==
  [][(ret'.op = "update_character_profile" /\ ret'.ok) =>
       /\ \A r \in profiles : r.id # ret'.id => r \in profiles'
       /\ Cardinality(profiles') = Cardinality(profiles)
       /\ \E r \in profiles : \E u \in profiles' :
            /\ r.id = ret'.id
            /\ u.id = ret'.id
            /\ u.created_at = r.created_at
            /\ u.profile_json = PyStr(Dumps(ret'.doc))
            /\ u.name = IF IsNone(ret'.arg[1]) THEN r.name ELSE ret'.arg[1][2]
            /\ u.lang = IF IsNone(ret'.arg[2]) THEN r.lang ELSE ret'.arg[2][2]
    ]_vars

\* an update renamed one of two profiles and left its lang alone
C15_Witness ==
  /\ ret.op = "update_character_profile"
  /\ ret.ok
  /\ ret.arg = <<PyStr("Bob"), PyNone>>
  /\ Cardinality(profiles) = 2
  /\ \E u \in profiles : u.id = ret.id /\ u.name = "Bob" /\ u.lang = "en"

----------------------------------------------------------------------------
(* The claims about search_character_profiles and search_character_templates *)

\* the searchable texts of a row: its name, its JSON column, its source
TextsOfProfile(r) == {<<r.name>>, r.profile_json[2]}
TextsOfTemplate(r) ==
  {<<r.name>>, r.template_json[2]}
    \cup (IF IsNone(r.source) THEN {} ELSE {<<r.source[2]>>})
JsonOfProfile(r) == r.profile_json[2]
JsonOfTemplate(r) == r.template_json[2]

\* the row satisfies every supplied filter, a text filter being satisfied
\* when Matches(text, value) holds
Satisfies(r, f, texts, json, Matches(_, _)) ==
  /\ (~IsNone(f.lang) /\ f.lang[2] # "") => r.lang = f.lang[2]
  /\ (~IsNone(f.name_like) /\ f.name_like[2] # <<>>) =>
        Matches(<<r.name>>, f.name_like[2])
  /\ (~IsNone(f.q) /\ f.q[2] # <<>>) => \E t \in texts : Matches(t, f.q[2])
  /\ (~IsNone(f.field) /\ f.field[2] # "" /\ ~IsNone(f.value_like)
        /\ f.value_like[2] # <<>>) =>
        /\ ~IsNone(JsonExtract(json, f.field[2]))
        /\ Matches(JsonExtract(json, f.field[2])[2], f.value_like[2])

\* the result is the summaries of matching, most recently updated first, cut
\* to limit
UpdatedFirstCut(result, matching, limit) ==
  /\ Len(result) = Smaller(limit, Cardinality(matching))
  /\ \A i \in DOMAIN result : \A j \in DOMAIN result :
       i # j => result[i].id # result[j].id
  /\ \A i \in DOMAIN result : \E r \in matching :
       /\ r.id = result[i].id
       /\ r.updated_at = result[i].updated_at
       /\ r.lang = result[i].lang
       /\ r.name = result[i].name
  /\ \A i \in DOMAIN result : \A j \in DOMAIN result :
       i < j => result[i].updated_at >= result[j].updated_at
  /\ \A r \in matching :
       (\A i \in DOMAIN result : result[i].id # r.id) =>
          \A i \in DOMAIN result : result[i].updated_at >= r.updated_at

\* two filter sets that supply different filters, and the set supplying both
Disjoint(fa, fb) == \A k \in DOMAIN fa : IsNone(fa[k]) \/ IsNone(fb[k])
Both(fa, fb) == [k \in DOMAIN fa |-> IF IsNone(fa[k]) THEN fb[k] ELSE fa[k]]
ProfileIds(f) ==
  UNION {{res[i].id : i \in DOMAIN res} :
           res \in ProfileSearchResults(f, Cardinality(profiles) + 1)}
TemplateIds(f) ==
  UNION {{res[i].id : i \in DOMAIN res} :
           res \in TemplateSearchResults(f, Cardinality(templates) + 1)}

\* the filters combine conjunctively: with the limit not reached, the rows
\* found with two filter sets together are those found with each alone, and
\* the rows found with no filter are all the rows
FiltersIntersect ==
  /\ ProfileIds(NoFilters) = {r.id : r \in profiles}
  /\ TemplateIds(NoFilters) = {r.id : r \in templates}
  /\ \A pair \in FilterPairs :
       /\ Disjoint(pair[1], pair[2])
       /\ ProfileIds(Both(pair[1], pair[2]))
            = ProfileIds(pair[1]) \cap ProfileIds(pair[2])
       /\ TemplateIds(Both(pair[1], pair[2]))
            = TemplateIds(pair[1]) \cap TemplateIds(pair[2])

\* C16 as stated: both searches return exactly the rows that satisfy every
\* supplied filter (exact language, name substring, free-text substring,
\* JSON field containing a value substring), most recently updated first and
\* cut to limit
C16_FiltersAreSubstrings ==
  /\ ret.op = "search_character_profiles" =>
       UpdatedFirstCut(ret.result,
         {r \in profiles :
            Satisfies(r, ret.filters, TextsOfProfile(r), JsonOfProfile(r),
                      Contains)},
         ret.limit)
  /\ ret.op = "search_character_templates" =>
       UpdatedFirstCut(ret.result,
         {r \in templates :
            Satisfies(r, ret.filters, TextsOfTemplate(r), JsonOfTemplate(r),
                      Contains)},
         ret.limit)

\* C16: both searches return exactly the rows that satisfy every supplied
\* filter (exact language; name, free text and JSON field value matched under
\* LIKE '%value%', letters compared without case and % matching any run of
\* text), most recently updated first and cut to limit; an omitted filter
\* excludes no row, and with the limit not reached the result with filters A
\* and B is the intersection of the results with A alone and with B alone
C16_FiltersAreLike ==
  /\ ret.op = "search_character_profiles" =>
       UpdatedFirstCut(ret.result,
         {r \in profiles :
            Satisfies(r, ret.filters, TextsOfProfile(r), JsonOfProfile(r),
                      Like)},
         ret.limit)
  /\ ret.op = "search_character_templates" =>
       UpdatedFirstCut(ret.result,
         {r \in templates :
            Satisfies(r, ret.filters, TextsOfTemplate(r), JsonOfTemplate(r),
                      Like)},
         ret.limit)
  /\ FiltersIntersect

\* a search by a name in another case found one of two profiles
C16_Witness ==
  /\ ret.op = "search_character_profiles"
  /\ ret.filters.name_like = PyStr(<<"ann">>)
  /\ Cardinality(profiles) = 2
  /\ Len(ret.result) = 1
  /\ ret.result[1].name = "Ann"
  /\ ProfileIds(Both(LangIs("en"), NameLike(<<"ann">>))) = {ret.result[1].id}

----------------------------------------------------------------------------
(* The claims about use_template *)

\* the template row a use_template call read
TemplateUsed == CHOOSE t \in templates : t.id = ret.id
\* the profile row a persisting use_template call wrote
ProfileWritten == CHOOSE r \in profiles : r.id = ret.result[2]

\* the relationships field of doc is what the claim says for override rel
\* over a template document seed
RelationshipsAsOverridden(doc, rel, seed) ==
  CASE rel[1] = "none" ->
         /\ DictHas(doc, "relationships") = DictHas(seed, "relationships")
         /\ DictGet(doc, "relationships") = DictGet(seed, "relationships")
    [] rel[1] = "dict" ->
         IF \E i \in DOMAIN rel[2] :
              rel[2][i][1] = "allies" /\ rel[2][i][2][1] = "list"
         THEN \E i \in DOMAIN rel[2] :
                /\ rel[2][i][1] = "allies"
                /\ DictGet(doc, "relationships") = rel[2][i][2]
         ELSE DictGet(doc, "relationships") = rel
    [] OTHER -> DictGet(doc, "relationships") = rel

\* C17: a profile instantiated from a template has as relationships the
\* allies list when the override is a dict whose 'allies' entry is a list, the
\* override itself in every other case, and the template's own value when
\* there is no override; the stored profile reads back the same
C17_RelationshipsOverride ==
  (ret.op = "use_template" /\ ret.ok) =>
    LET seed == Loads(TemplateUsed.template_json[2]) IN
    /\ RelationshipsAsOverridden(ret.doc, ret.arg[2], seed)
    /\ ret.result[1] = "int" =>
         RelationshipsAsOverridden(Loads(ProfileWritten.profile_json[2]),
                                   ret.arg[2], seed)

\* a persisted profile took the list out of an allies override
C17_Witness ==
  /\ ret.op = "use_template"
  /\ ret.ok
  /\ ret.result[1] = "int"
  /\ ret.arg[2] = PyDict(<< <<"allies", PyList(<<PyStr("Ally1")>>)>> >>)
  /\ DictGet(Loads(ProfileWritten.profile_json[2]), "relationships")
       = PyList(<<PyStr("Ally1")>>)

\* the keys a document of this model may hold
DocKeys == {"name", "backstory", "relationships", "role", "allies"}

\* doc is the document seed with the overrides and the name applied
CopyWithOverrides(doc, seed, backstory, rel, name) ==
  /\ doc[1] = "dict"
  /\ DictGet(doc, "name") = PyStr(name)
  /\ IF IsNone(backstory)
     THEN /\ DictHas(doc, "backstory") = DictHas(seed, "backstory")
          /\ DictGet(doc, "backstory") = DictGet(seed, "backstory")
     ELSE DictGet(doc, "backstory") = backstory
  /\ RelationshipsAsOverridden(doc, rel, seed)
  /\ \A k \in DocKeys \ {"name", "backstory", "relationships"} :
       /\ DictHas(doc, k) = DictHas(seed, k)
       /\ DictGet(doc, k) = DictGet(seed, k)

\* C18: instantiating a profile from a template leaves every template row as
\* it was; the profile returned, and stored when persisting, is the
\* template's document with the overrides and the new name applied; and a
\* later change of a template changes no profile
C18_TemplateIsCopied ==
  [][/\ ret'.op = "use_template" =>
          /\ templates' = templates
          /\ templateSeq' = templateSeq
          /\ ret'.ok =>
               \E t \in templates :
                  /\ t.id = ret'.id
                  /\ CopyWithOverrides(ret'.doc, Loads(t.template_json[2]),
                                       ret'.arg[1], ret'.arg[2], ret'.name)
                  /\ ret'.result[1] = "int" =>
                       \E r \in profiles' :
                          /\ r.id = ret'.result[2]
                          /\ r.name = ret'.name
                          /\ CopyWithOverrides(Loads(r.profile_json[2]),
                                Loads(t.template_json[2]),
                                ret'.arg[1], ret'.arg[2], ret'.name)
     /\ ret'.op = "save_character_template" =>
          /\ profiles' = profiles
          /\ profileSeq' = profileSeq
    ]_vars

\* a template was changed after a profile with a backstory override was
\* created from it, and the profile still holds the relationships it copied
C18_Witness ==
  /\ ret.op = "save_character_template"
  /\ ret.conflict
  /\ \E t \in templates : Loads(t.template_json[2]) = MageDoc
  /\ \E r \in profiles :
       /\ DictGet(Loads(r.profile_json[2]), "relationships")
            = PyList(<<PyStr("Mentor")>>)
       /\ DictGet(Loads(r.profile_json[2]), "backstory") = PyStr("exile")
       /\ DictGet(Loads(r.profile_json[2]), "name") = PyStr("Bob")

----------------------------------------------------------------------------
(* The claims about lookups *)

\* the table a lookup reads
TableOf(op) ==
  CASE op \in {"get_character_profile_by_id", "get_profile",
               "get_character_profile", "get_profile_by_name"} -> profiles
    [] op \in {"get_character_template_by_id", "get_template"} -> templates
    [] op \in {"get_evaluation", "get_eval"} -> evaluations

\* no row of the table has the id, or the (lang, name), the lookup asked for
MatchesNoRow(call) ==
  IF call.op \in {"get_character_profile", "get_profile_by_name"}
  THEN \A r \in profiles : r.lang # call.arg[1] \/ r.name # call.arg[2]
  ELSE \A r \in TableOf(call.op) :
          call.arg[1][1] # "int" \/ call.arg[1][2] # r.id

\* C19: a lookup of a profile, a template or an evaluation by an id or a
\* (lang, name) that matches no row does not raise, returns None at the
\* persistence layer and a not-found response at the REST layer, and leaves
\* the store unchanged
C19_AbsentLookupIsExplicit ==
  [][(ret'.op \in IdGetters \cup RestHandlers
                    \cup {"get_character_profile", "get_profile_by_name"}
        /\ MatchesNoRow(ret'))
       => /\ ret'.raised = ""
          /\ IsNone(ret'.result)
          /\ ret'.op \in RestHandlers \cup {"get_profile_by_name"}
               => ret'.status = 404
          /\ UNCHANGED <<profVars, evalVars>>
    ]_vars

----------------------------------------------------------------------------
(* The claims about the database location *)

\* the directory cannot hold the database file
Unavailable(state) == state \in {"readonly", "blocked"}

\* init_db has created the tables somewhere
Initialised == \E d \in DOMAIN dirs : dirs[d] = "database"

\* C20: when the directory of the configured database path is unavailable,
\* every store operation (init_db, and every operation after an init_db)
\* succeeds, and from then on DB_PATH is the file of the configured name in
\* the ./data directory
C20_DirectoryFailureIsRecovered ==
  [][(/\ ret'.op \in DirOps
      /\ Unavailable(dirs[ConfiguredDir])
      /\ DB_PATH.file # ""
      /\ ret'.op = "init_db" \/ Initialised)
       => /\ ret'.raised = ""
          /\ DB_PATH' = DbPath(FallbackDir, DB_PATH.file)
    ]_vars

----------------------------------------------------------------------------
(* The claims about the task configuration loaders *)

\* C21: a loader returns the requested language's document when it exists and
\* otherwise the en document, and returns an empty configuration, without
\* raising, when neither exists or the chosen document is malformed
C21_LoaderFallsBackAndNeverRaises ==
  ret.op = "_load_task_config" =>
    LET files == env.tasks[ret.team]
        has(lang) == lang \in DOMAIN files /\ files[lang] # "absent"
        chosen == IF has(ret.lang) THEN ret.lang ELSE "en"
    IN /\ ret.raised = ""
       /\ (has(chosen) /\ files[chosen] = "mapping") =>
             ret.result = TaskDoc(chosen)
       /\ (~has(chosen) \/ files[chosen] = "malformed") =>
             ret.result = PyDict(<<>>)

----------------------------------------------------------------------------
(* The claims about the model client factory *)

SupportedProviders == {"openai", "deepseek", "gemini", "ollama"}
\* what a provider needs: its key in the environment, or its client package
Usable(name) ==
  \/ name = "openai" /\ env.OPENAI_API_KEY
  \/ name = "deepseek" /\ env.DEEPSEEK_API_KEY
  \/ name = "gemini" /\ env.GEMINI_API_KEY
  \/ name = "ollama" /\ env.ollama
\* the provider a call asks for: the lower-cased argument, or the default
AskedFor(provider) ==
  Lower(IF provider \in {PyNone, PyStr("")} THEN DEFAULT_PROVIDER
        ELSE provider[2])

\* C22: the factory returns a client only for a supported provider whose
\* credential is present (for ollama: whose client can be imported), and
\* otherwise raises and returns nothing; a team is built with one factory call
\* per agent, and no team is returned when one of these calls fails
C22_ClientOnlyWhenUsable ==
  /\ ret.op = "_build_model_client" =>
       IF AskedFor(ret.provider) \in SupportedProviders
          /\ Usable(AskedFor(ret.provider))
       THEN /\ ret.raised = ""
            /\ ret.client.provider = AskedFor(ret.provider)
       ELSE /\ ret.raised \in {"RuntimeError", "ValueError", "OpenAIError"}
            /\ ret.client = NoClient
  /\ team.built =>
       /\ team.calls = Len(Agents)
       /\ Len(team.clients) = Len(Agents)
       /\ \A i \in DOMAIN Agents : Usable(team.clients[i].provider)
  /\ (team # NoTeam /\ ~team.built) =>
       /\ team.raised \in {"RuntimeError", "ValueError", "OpenAIError"}
       /\ team.calls \in DOMAIN Agents
       /\ team.clients = <<>>

\* a client was refused for a missing key, and a team construction failed at
\* its fourth factory call after three clients had been built
C22_Witness ==
  /\ ret.op = "_build_model_client"
  /\ AskedFor(ret.provider) = "deepseek"
  /\ ret.raised = "RuntimeError"
  /\ ~team.built
  /\ team.calls = Len(Agents)
  /\ team.raised = "RuntimeError"

----------------------------------------------------------------------------
(* The claims about the defaults of POST /evaluate *)

\* a field of the request, or the default when the caller left it out
OrDefault(field, default) == IF IsNone(field) THEN PyStr(default) ELSE field

\* the team a request would get had the caller supplied every default
TeamWithDefaultsSupplied(payload) ==
  CreateTeam(OrDefault(payload.model, DEFAULT_MODEL),
             OrDefault(payload.provider, DEFAULT_PROVIDER),
             OrDefault(payload.answer_language, DEFAULT_ANSWER_LANGUAGE))

\* C23: a request that leaves out model, provider or answer_language is run
\* with DEFAULT_MODEL, DEFAULT_PROVIDER and DEFAULT_ANSWER_LANGUAGE, exactly
\* as if the caller had supplied these values
C23_OmittedFieldsTakeDefaults ==
  request.phase # "none" => team = TeamWithDefaultsSupplied(request.payload)

----------------------------------------------------------------------------
(* The claims about the pseudo-embedding *)

\* the stored embeddings of the evaluations of a chapter text
StoredVectorsOf(text) ==
  {e.embedding : e \in {x \in embeddings :
                          \E r \in evaluations :
                            r.id = x.rowid /\ r.chapter_text = text}}

----------------------------------------------------------------------------
(* The claims about concurrent saves of one profile *)

\* the calls that have ended, and those of them that returned
EndedCalls == {c \in Threads : connections[c].phase \in {"returned", "raised"}}
ReturnedCalls == {c \in Threads : connections[c].phase = "returned"}
\* the calls with the key of call c
SameKey(c) ==
  {d \in Threads : /\ connections[d].phase # "idle"
                   /\ connections[d].lang = connections[c].lang
                   /\ connections[d].name = connections[c].name}

----------------------------------------------------------------------------
(* The claims about evaluation records and their embeddings *)

\* each embedding is keyed by the id of an evaluation and is the vector of
\* that evaluation's chapter; no rowid and no id occurs twice
EmbeddingsBelong(evals, embs) ==
  /\ \A e \in embs :
       \E r \in evals :
         /\ r.id = e.rowid
         /\ e.embedding = PseudoEmbed(r.chapter_text, EmbedDim)
  /\ \A e1 \in embs, e2 \in embs : e1.rowid = e2.rowid => e1 = e2
  /\ \A r1 \in evals, r2 \in evals : r1.id = r2.id => r1 = r2

\* C26: every embedding row is keyed by the id of an existing evaluation, no
\* evaluation has two embeddings (it may have none), and no step changes or
\* removes an evaluation or an embedding that was written
C26_RecordsAreImmutable ==
  [][/\ EmbeddingsBelong(evaluations', embeddings')
     /\ evaluations \subseteq evaluations'
     /\ embeddings \subseteq embeddings']_vars

\* an evaluation saved without an embedding and one saved with its embedding
\* are both in the store, and the first has just been read
C26_Witness ==
  /\ Cardinality(evaluations) = 2
  /\ Cardinality(embeddings) = 1
  /\ \E e \in embeddings : e.rowid = 2
  /\ ret.op = "get_evaluation"

----------------------------------------------------------------------------
(* The claims about the rounds /evaluate persists *)

\* the record the request in flight has persisted
PersistedRecord == {r \in evaluations : PyInt(r.id) = request.eval_id}

\* C27: the rounds of the record /evaluate persists is the number of messages
\* of the transcript divided by 4 and rounded down, 0 for an empty
\* transcript, whatever cap and agents the run had
C27_RoundsIsMessagesOverFour ==
  (request.phase = "returned" /\ request.eval_id # PyNone) =>
    /\ PersistedRecord # {}
    /\ \A r \in PersistedRecord :
         /\ r.rounds >= 0
         /\ 4 * r.rounds <= Len(transcript)
         /\ Len(transcript) < 4 * (r.rounds + 1)
         /\ transcript = <<>> => r.rounds = 0

\* a result of five messages was persisted with rounds 1, after a result of
\* no message had been persisted with rounds 0
C27_Witness ==
  /\ request.phase = "returned"
  /\ Len(transcript) = 5
  /\ \E r \in PersistedRecord : r.rounds = 1
  /\ \E r \in evaluations : r.rounds = 0

----------------------------------------------------------------------------
(* The claims about requests to /evaluate that are answered with an error *)

\* C28: a request to /evaluate that is answered with an error has persisted
\* nothing: the evaluations table is as it was when the request arrived, also
\* when the final message is valid JSON that is no object
C28_ErrorsPersistNothing ==
  (request.phase \in {"raised", "returned"} /\ response.status # 200) =>
    evaluations = request.before

----------------------------------------------------------------------------
(* The claims about the effect of use_template on the store *)

\* what the claim says of a use_template step for template id v and name name
UseTemplateEffect(v, name, persist) ==
  LET found == IF v[1] = "int" THEN RowsById(templates, v[2]) ELSE {} IN
  IF found = {}
  THEN /\ ret'.raised = "404"
       /\ profiles' = profiles
  ELSE LET lang == (CHOOSE t \in found : TRUE).lang
           before == RowsByKey(profiles, lang, name)
       IN IF ~persist
          THEN /\ profiles' = profiles
               /\ ret'.result = PyNone
          ELSE /\ \E r \in profiles' :
                    /\ RowsByKey(profiles', lang, name) = {r}
                    /\ ret'.result = PyInt(r.id)
                    /\ r.profile_json = PyStr(Dumps(ret'.doc))
                    /\ \A b \in before : b.id = r.id
               /\ Cardinality(profiles') =
                    Cardinality(profiles) + (IF before = {} THEN 1 ELSE 0)
               /\ \A o \in profiles \ before : o \in profiles'

\* C29: use_template with persist true upserts the profile under (language,
\* name): for a pair that exists the document is replaced, the existing id is
\* returned and the number of profiles does not grow; with persist false the
\* store is unchanged and the id is null; an unknown template id is answered
\* not-found and the store is unchanged
C29_UseTemplateUpserts ==
  [][\A v \in UsePathIds, backstory \in BackstoryOverrides, persist \in BOOLEAN :
       post_use_template(v, "Bob", PyNone, backstory, PyNone, persist)
         => UseTemplateEffect(v, "Bob", persist)]_vars

----------------------------------------------------------------------------
(* The claims about the path that serves search_evaluations *)

\* the smaller of two numbers
AtMost(a, b) == IF a < b THEN a ELSE b
\* the evaluations whose chapter the LIKE pattern of a query matches
LikeMatches(query) == {r \in evaluations : Like(r.chapter_text, query)}
\* the ids of the summaries a search returned
ServedIds == {ret.result[i].id : i \in DOMAIN ret.result}

\* C30: when the vector query runs and no embedding is stored, the request is
\* served by the LIKE fallback on the chapter text: the matching evaluations,
\* up to top_k, and not the empty list; when an embedding is stored, the
\* vector path serves it alone: the result holds the nearest embedded
\* evaluations up to top_k, whatever the query matches
C30_VectorPathOnlyWithRows ==
  (ret.op = "search_evaluations" /\ VectorQueryRuns) =>
    IF embeddings = {}
    THEN /\ ret.path = "like"
         /\ ServedIds \subseteq {r.id : r \in LikeMatches(ret.query)}
         /\ Len(ret.result) =
              AtMost(ret.top_k, Cardinality(LikeMatches(ret.query)))
    ELSE /\ ret.path = "vector"
         /\ ServedIds \subseteq {e.rowid : e \in embeddings}
         /\ Len(ret.result) = AtMost(ret.top_k, Cardinality(embeddings))

\* with the vector query running and no embedding stored, a search was served
\* by the fallback and returned a record
C30_Witness ==
  /\ ret.op = "search_evaluations"
  /\ VectorQueryRuns
  /\ embeddings = {}
  /\ ret.path = "like"
  /\ Len(ret.result) = 1

====
